---- MODULE Spec2Model ----
(***************************************************************************)
(* Drone's state machine (src/src/state_machine.js) and the navigation     *)
(* facade of the Drone class (src/index.js): registration of base states   *)
(* and transitions, classification of the page, Dijkstra routing and the   *)
(* guarded traversal of a route with retries.                              *)
(*                                                                         *)
(* The page is modelled by the set of registered state names whose test    *)
(* predicate currently evaluates to true; transition logic and user        *)
(* actions may leave the page in any such set.                             *)
(***************************************************************************)
EXTENDS Integers, Sequences, FiniteSets, TLC

\* ------------------------------------------------------------------------
\* Bounds of the model
\* ------------------------------------------------------------------------
MaxCost == 2            \* declared costs range over 0..MaxCost
MaxRouteEdges == 3      \* routing graphs hold at most this many transitions
MaxTransitions == 4     \* declarations accepted in one run of the declaration phase
MaxRetries == 2         \* the retries argument ranges over 0..MaxRetries
MaxPathLen == 2         \* caller-built paths handed to traversePath
MaxFragments == 3       \* composite fragments declared in one run
MaxSelections == 6      \* iterations of a loop that are counted before the count stops

\* ------------------------------------------------------------------------
\* Values
\* ------------------------------------------------------------------------
BAD_STATE == "< INVALID STATE >"
NULL == "null"
Infinity == 1000000

NameOrder == <<"foo", "bar", "baz">>
Names == {NameOrder[i] : i \in DOMAIN NameOrder}
UnknownName == "bird"
Costs == 0..MaxCost
Retries == 0..MaxRetries

VARIABLES
    states,               \* this.states: registered names, by priority
    neighbors,            \* this.neighbors: <<start, end>> -> cost
    fragmentTransitions,  \* this.fragmentTransitions: <<startKey, endKey>> -> cost
    compositeFragments,   \* this.compositeFragments: canonical key -> declaration
    layers,               \* this.layers: the layers in order of creation, each with
                          \* its values in order of creation
    compositeStates,      \* this.compositeStates: the latest expansion
    currentState,         \* this._currentState
    page,                 \* names whose test predicate holds on the page
    pc,                   \* "idle", "traverse", "continuation" or "done"
    call,                 \* the navigation call in progress
    path,                 \* the route being traversed
    routeIdx,             \* index in path of the edge being attempted
    retryAttempts,        \* attempts made on that edge
    result,               \* outcome of the call
    logicCalls,           \* per edge of path: invocations of its transition logic
    contCalls,            \* the arguments of each invocation of the caller's continuation
    lastSeen,             \* what the latest classification of this call returned,
                          \* NoObs once transition logic has run after it
    paramsSeen,           \* the params values that the state predicates and the
                          \* transition logic were handed during this call
    peer                  \* a second ensureState call on the same instance, followed
                          \* from one await to the next

compVars == <<compositeFragments, layers, compositeStates>>
declVars == <<states, neighbors, fragmentTransitions, compVars>>
navVars == <<pc, call, path, routeIdx, retryAttempts, result, logicCalls, contCalls, lastSeen,
             paramsSeen>>
vars == <<states, neighbors, fragmentTransitions, compositeFragments, layers, compositeStates,
          currentState, page, pc, call, path, routeIdx, retryAttempts, result, logicCalls,
          contCalls, lastSeen, paramsSeen, peer>>

\* ------------------------------------------------------------------------
\* Helpers
\* ------------------------------------------------------------------------
Range(s) == {s[i] : i \in DOMAIN s}

\* name is one of this.states
IsState(name) == name \in Range(states)

\* names that every object literal answers to through its prototype
InheritedNames == {"constructor"}

\* this.stateTests[name] is truthy, `name in this.stateTests`: stateTests is an
\* object literal, whose inherited properties are found as well
HasTest(name) == name \in Range(states) \cup InheritedNames

\* this.neighbors[start] exists
HasNeighbors(start) == \E e \in DOMAIN neighbors : e[1] = start

\* util.stateToString: JSON.stringify(state, Object.keys(state).sort()), the
\* key/value pairs of the fragment listed in sorted key order
KeyOrder == <<"base", "loggedIn", "vip">>
RECURSIVE PairsInOrder(_, _)
PairsInOrder(keys, state) ==
    IF keys = <<>> THEN <<>>
    ELSE IF Head(keys) \in DOMAIN state
         THEN <<<<Head(keys), state[Head(keys)]>>>> \o PairsInOrder(Tail(keys), state)
         ELSE PairsInOrder(Tail(keys), state)
stateToString(state) == PairsInOrder(KeyOrder, state)

NoObs == "none"
NoCall == [op |-> "none", start |-> NULL, target |-> NULL, stateList |-> <<>>, cost |-> 0,
           retries |-> 0, fields |-> <<>>, endFields |-> <<>>]
\* the second call when it is not running. Besides its local variables it keeps
\* the page as this call left it at its latest step, whether the page was ever
\* found changed since, whether the continuation was invoked, and whether the
\* cached state was set to an edge's end, or the continuation invoked, with the
\* page elsewhere
NoPeer == [pc |-> "idle", target |-> NULL, path |-> <<>>, routeIdx |-> 1, retryAttempts |-> 0,
           retries |-> 0, seen |-> NoObs, pageLeft |-> {}, disturbed |-> FALSE,
           continued |-> FALSE, corrupt |-> FALSE]

\* the params values: what the caller passes, the machine's own this._currentParams
\* ({}), and the value of a property that was never set
CallerParams == "params"
CurrentParams == "{}"
Undefined == "undefined"
NoParamsSeen == [tests |-> {}, logic |-> {}]
NoResult == [error |-> "pending", info |-> <<>>, path |-> <<>>, state |-> NULL, list |-> {}]
Ok(p, s) == [error |-> "none", info |-> <<>>, path |-> p, state |-> s, list |-> {}]
Err(kind, info) == [error |-> kind, info |-> info, path |-> <<>>, state |-> NULL, list |-> {}]

\* ------------------------------------------------------------------------
\* Classification of the page
\* ------------------------------------------------------------------------
\* what the predicates evaluated by one getCurrentState are handed as params:
\* this._currentParams, whatever the caller of the navigation passed
ClassifyArgs == IF currentState # NULL \/ states # <<>> THEN {CurrentParams} ELSE {}

RECURSIVE FirstMatch(_, _)
FirstMatch(list, pg) ==
    IF list = <<>> THEN NULL
    ELSE IF Head(list) \in pg THEN Head(list)
    ELSE FirstMatch(Tail(list), pg)

\* getCurrentState without the test of the cached state
getCurrentStateUncached(pg, cached) == FirstMatch(states, pg)

getCurrentState(pg, cached) ==
    IF cached # NULL /\ cached \in pg THEN cached
    ELSE FirstMatch(states, pg)

\* ------------------------------------------------------------------------
\* Routing
\* ------------------------------------------------------------------------
RECURSIVE MinScan(_, _, _, _)
\* the forEach that selects the unvisited node with the shortest distance
MinScan(unvisited, vertices, node, minDistance) ==
    IF unvisited = <<>> THEN <<node, minDistance>>
    ELSE IF vertices[Head(unvisited)].distance < minDistance
         THEN MinScan(Tail(unvisited), vertices, Head(unvisited), vertices[Head(unvisited)].distance)
         ELSE MinScan(Tail(unvisited), vertices, node, minDistance)

\* unvisited.splice(unvisited.indexOf(node), 1); indexOf gives -1 for a node
\* that is not in the list, and splice(-1, 1) then drops the last element
Splice(unvisited, node) ==
    IF \E i \in DOMAIN unvisited : unvisited[i] = node
    THEN LET i == CHOOSE k \in DOMAIN unvisited :
                      /\ unvisited[k] = node
                      /\ \A j \in 1..(k - 1) : unvisited[j] # node
         IN SubSeq(unvisited, 1, i - 1) \o SubSeq(unvisited, i + 1, Len(unvisited))
    ELSE SubSeq(unvisited, 1, Len(unvisited) - 1)

\* Relax with the distance of the node left out of the sum
RelaxCostOnly(vertices, node, minDistance) ==
    [v \in DOMAIN vertices |->
        IF /\ <<node, v>> \in DOMAIN neighbors
           /\ neighbors[<<node, v>>] < vertices[v].distance
        THEN [distance |-> neighbors[<<node, v>>], prev |-> node]
        ELSE vertices[v]]

Relax(vertices, node, minDistance) ==
    [v \in DOMAIN vertices |->
        IF /\ <<node, v>> \in DOMAIN neighbors
           /\ minDistance + neighbors[<<node, v>>] < vertices[v].distance
        THEN [distance |-> minDistance + neighbors[<<node, v>>], prev |-> node]
        ELSE vertices[v]]

RECURSIVE Dijkstra(_, _)
Dijkstra(unvisited, vertices) ==
    IF unvisited = <<>> THEN vertices
    ELSE LET sel == MinScan(unvisited, vertices, NULL, Infinity)
         IN Dijkstra(Splice(unvisited, sel[1]), Relax(vertices, sel[1], sel[2]))

\* the node selections of the while loop, with the splice leaving the list as it
\* is when no node was selected
RECURSIVE DijkstraSelectionsKeepMissing(_, _, _)
DijkstraSelectionsKeepMissing(unvisited, vertices, n) ==
    IF unvisited = <<>> \/ n >= MaxSelections THEN n
    ELSE LET sel == MinScan(unvisited, vertices, NULL, Infinity)
             rest == IF \E i \in DOMAIN unvisited : unvisited[i] = sel[1]
                     THEN Splice(unvisited, sel[1]) ELSE unvisited
         IN DijkstraSelectionsKeepMissing(rest, Relax(vertices, sel[1], sel[2]), n + 1)

\* the number of node selections `while (unvisited.length)` makes after the n it
\* has made, counted up to MaxSelections
RECURSIVE DijkstraSelections(_, _, _)
DijkstraSelections(unvisited, vertices, n) ==
    IF unvisited = <<>> \/ n >= MaxSelections THEN n
    ELSE LET sel == MinScan(unvisited, vertices, NULL, Infinity)
         IN DijkstraSelections(Splice(unvisited, sel[1]), Relax(vertices, sel[1], sel[2]), n + 1)

\* InitialVertices without the seed of the sentinel vertex
InitialVerticesUnseeded(startState) ==
    [v \in Range(states) \cup {BAD_STATE} |->
        IF v = startState /\ v # BAD_STATE
        THEN [distance |-> 0, prev |-> NULL]
        ELSE [distance |-> Infinity, prev |-> NULL]]

InitialVertices(startState) ==
    [v \in Range(states) \cup {BAD_STATE} |->
        IF v = startState \/ v = BAD_STATE
        THEN [distance |-> 0, prev |-> NULL]
        ELSE [distance |-> Infinity, prev |-> NULL]]

\* Reconstruct with `current` left at the end state while prev walks back
RECURSIVE ReconstructStaleCurrent(_, _, _, _, _)
ReconstructStaleCurrent(vertices, startState, current, prev, p) ==
    IF prev = startState \/ prev = BAD_STATE THEN p
    ELSE LET p2 == vertices[prev].prev
         IN ReconstructStaleCurrent(vertices, startState, current, p2, <<<<p2, current>>>> \o p)

RECURSIVE Reconstruct(_, _, _, _, _)
Reconstruct(vertices, startState, current, prev, p) ==
    IF prev = startState \/ prev = BAD_STATE THEN p
    ELSE LET c2 == vertices[current].prev
             p2 == vertices[prev].prev
         IN Reconstruct(vertices, startState, c2, p2, <<<<p2, c2>>>> \o p)

\* the number of iterations `while (prev !== startState && prev !== BAD_STATE)`
\* makes after the n it has made, counted up to MaxSelections
RECURSIVE ReconstructSteps(_, _, _, _, _)
ReconstructSteps(vertices, startState, current, prev, n) ==
    IF prev = startState \/ prev = BAD_STATE \/ n >= MaxSelections THEN n
    ELSE ReconstructSteps(vertices, startState, vertices[current].prev, vertices[prev].prev, n + 1)

\* fsmFindPathToState with the dead-end substitution made before the test for
\* being there already
fsmFindPathSubstituteFirst(startState, endState) ==
    IF ~HasTest(startState) THEN Err("Unknown state", <<startState>>)
    ELSE IF ~HasTest(endState) THEN Err("Unknown state", <<endState>>)
    ELSE LET start == IF HasNeighbors(startState) THEN startState ELSE BAD_STATE
             vertices == Dijkstra(Append(states, BAD_STATE), InitialVertices(start))
             prev == vertices[endState].prev
         IN IF start = endState THEN Ok(<<>>, endState)
            ELSE IF prev = NULL
            THEN Err("No route exists", <<start, endState>>)
            ELSE Ok(Reconstruct(vertices, start, endState, prev, <<<<prev, endState>>>>), endState)

\* StateMachine.findPathToState(startState, startParams, endState, endParams)
fsmFindPathToState(startState, endState) ==
    IF ~HasTest(startState) THEN Err("Unknown state", <<startState>>)
    ELSE IF ~HasTest(endState) THEN Err("Unknown state", <<endState>>)
    ELSE IF startState = endState THEN Ok(<<>>, endState)
    ELSE LET start == IF HasNeighbors(startState) THEN startState ELSE BAD_STATE
             vertices == Dijkstra(Append(states, BAD_STATE), InitialVertices(start))
             prev == vertices[endState].prev
         IN IF prev = NULL
            THEN Err("No route exists", <<start, endState>>)
            ELSE Ok(Reconstruct(vertices, start, endState, prev, <<<<prev, endState>>>>), endState)

\* Drone.findPathToState(stateName, params)
findPathToState(stateName) ==
    fsmFindPathToState(getCurrentState(page, currentState), stateName)

RECURSIVE PathCost(_)
PathCost(p) ==
    IF p = <<>> THEN 0 ELSE neighbors[Head(p)] + PathCost(Tail(p))

\* ------------------------------------------------------------------------
\* Declarations
\* ------------------------------------------------------------------------
\* the names handed to addState: the next unregistered name, the first
\* registered one again, and the sentinel
AddStateInputs ==
    {NameOrder[i] : i \in {j \in DOMAIN NameOrder : j = Len(states) + 1 \/ j = 1}} \cup {BAD_STATE}

TransitionInputs ==
    { <<"foo", "bar", 1>>, <<"bar", "baz", 1>>, <<"baz", "foo", 1>>,
      <<"foo", "bar", 2>>, <<"foo", "foo", 1>>, <<"bird", "foo", 1>>, <<"foo", "bird", 1>> }

DefaultInputs == { <<"foo", 2>>, <<"baz", 1>>, <<"bird", 1>> }

Put(table, key, cost) ==
    [k \in DOMAIN table \cup {key} |-> IF k = key THEN cost ELSE table[k]]

Declared(c, r) ==
    /\ pc' = "done"
    /\ call' = c
    /\ result' = r
    /\ UNCHANGED <<currentState, page, path, routeIdx, retryAttempts, logicCalls, contCalls,
                   lastSeen, paramsSeen, peer>>

addState(stateName) ==
    /\ pc = "idle"
    /\ LET c == [NoCall EXCEPT !.op = "addState", !.target = stateName]
       IN IF stateName = BAD_STATE \/ HasTest(stateName)
          THEN /\ Declared(c, Err("already exists", <<stateName>>))
               /\ UNCHANGED declVars
          ELSE /\ states' = Append(states, stateName)
               /\ Declared(c, Ok(<<>>, NULL))
               /\ UNCHANGED <<neighbors, fragmentTransitions, compVars>>

\* addStateTransition rejecting only a strictly cheaper existing transition
addStateTransitionStrict(startState, endState, cost) ==
    /\ pc = "idle"
    /\ <<startState, endState>> \in DOMAIN neighbors \/ Cardinality(DOMAIN neighbors) < MaxTransitions
    /\ LET c == [NoCall EXCEPT !.op = "addStateTransition", !.start = startState,
                               !.target = endState, !.cost = cost]
       IN IF startState = endState \/ ~HasTest(startState) \/ ~HasTest(endState)
          THEN /\ Declared(c, Err("does not exist", <<startState, endState>>))
               /\ UNCHANGED declVars
          ELSE IF /\ <<startState, endState>> \in DOMAIN neighbors
                  /\ neighbors[<<startState, endState>>] < cost
          THEN /\ Declared(c, Err("cheaper path", <<neighbors[<<startState, endState>>], startState, endState>>))
               /\ UNCHANGED declVars
          ELSE /\ neighbors' = Put(neighbors, <<startState, endState>>, cost)
               /\ fragmentTransitions' =
                      Put(fragmentTransitions,
                          <<stateToString([base |-> startState]), stateToString([base |-> endState])>>,
                          cost)
               /\ Declared(c, Ok(<<>>, NULL))
               /\ UNCHANGED <<states, compVars>>

addStateTransition(startState, endState, cost) ==
    /\ pc = "idle"
    /\ <<startState, endState>> \in DOMAIN neighbors \/ Cardinality(DOMAIN neighbors) < MaxTransitions
    /\ LET c == [NoCall EXCEPT !.op = "addStateTransition", !.start = startState,
                               !.target = endState, !.cost = cost]
       IN IF startState = endState
          THEN /\ Declared(c, Err("state to itself", <<startState>>))
               /\ UNCHANGED declVars
          ELSE IF ~HasTest(startState)
          THEN /\ Declared(c, Err("does not exist", <<startState>>))
               /\ UNCHANGED declVars
          ELSE IF ~HasTest(endState)
          THEN /\ Declared(c, Err("does not exist", <<endState>>))
               /\ UNCHANGED declVars
          ELSE IF /\ <<startState, endState>> \in DOMAIN neighbors
                  /\ neighbors[<<startState, endState>>] <= cost
          THEN /\ Declared(c, Err("cheaper path", <<neighbors[<<startState, endState>>], startState, endState>>))
               /\ UNCHANGED declVars
          ELSE /\ neighbors' = Put(neighbors, <<startState, endState>>, cost)
               /\ fragmentTransitions' =
                      Put(fragmentTransitions,
                          <<stateToString([base |-> startState]), stateToString([base |-> endState])>>,
                          cost)
               /\ Declared(c, Ok(<<>>, NULL))
               /\ UNCHANGED <<states, compVars>>

addDefaultStateTransition(endState, cost) ==
    /\ pc = "idle"
    /\ <<BAD_STATE, endState>> \in DOMAIN neighbors \/ Cardinality(DOMAIN neighbors) < MaxTransitions
    /\ LET c == [NoCall EXCEPT !.op = "addDefaultStateTransition", !.start = BAD_STATE,
                               !.target = endState, !.cost = cost]
       IN IF ~HasTest(endState)
          THEN /\ Declared(c, Err("does not exist", <<endState>>))
               /\ UNCHANGED declVars
          ELSE /\ neighbors' = Put(neighbors, <<BAD_STATE, endState>>, cost)
               /\ Declared(c, Ok(<<>>, NULL))
               /\ UNCHANGED <<states, fragmentTransitions, compVars>>

\* ------------------------------------------------------------------------
\* Composite states
\* ------------------------------------------------------------------------
\* A fragment or composite state, a JavaScript object, is the sequence of its
\* <<key, value>> pairs in insertion order.

\* state[key]
Get(state, key) ==
    IF \E i \in DOMAIN state : state[i][1] = key
    THEN state[CHOOSE i \in DOMAIN state : state[i][1] = key][2]
    ELSE Undefined

\* the object as a map from its keys, which is what JSON.stringify walks
AsMap(state) == [k \in {state[i][1] : i \in DOMAIN state} |-> Get(state, k)]

\* {...state, [key]: value}
Assign(state, key, value) ==
    IF \E i \in DOMAIN state : state[i][1] = key
    THEN [i \in DOMAIN state |-> IF state[i][1] = key THEN <<key, value>> ELSE state[i]]
    ELSE Append(state, <<key, value>>)

\* {...a, ...b}
RECURSIVE Merge(_, _)
Merge(a, b) == IF b = <<>> THEN a ELSE Merge(Assign(a, Head(b)[1], Head(b)[2]), Tail(b))

\* util.isSubstate(subState, superState)
isSubstate(subState, superState) ==
    \A i \in DOMAIN subState : Get(superState, subState[i][1]) = subState[i][2]

\* position of the layer called name in this.layers, 0 when there is none
LayerIndex(ls, name) ==
    IF \E i \in DOMAIN ls : ls[i].name = name
    THEN CHOOSE i \in DOMAIN ls : ls[i].name = name
    ELSE 0

\* position of the entry of value in a layer, 0 when there is none
ValueIndex(vals, value) ==
    IF \E i \in DOMAIN vals : vals[i].value = value
    THEN CHOOSE i \in DOMAIN vals : vals[i].value = value
    ELSE 0

\* baseStateList.filter(item => orig.indexOf(item) < 0)
RECURSIVE NotIn(_, _)
NotIn(orig, baseStateList) ==
    IF baseStateList = <<>> THEN <<>>
    ELSE IF Head(baseStateList) \in Range(orig)
         THEN NotIn(orig, Tail(baseStateList))
         ELSE <<Head(baseStateList)>> \o NotIn(orig, Tail(baseStateList))

\* the for loop of addCompositeState over the layers of the fragment, from the
\* i-th key on
RECURSIVE AddFragmentLayers(_, _, _, _, _)
AddFragmentLayers(ls, stateFields, i, dependency, baseStateList) ==
    IF i > Len(stateFields) THEN ls
    ELSE LET layer == stateFields[i][1]
             stateField == stateFields[i][2]
             ls1 == IF LayerIndex(ls, layer) = 0
                    THEN Append(ls, [name |-> layer, values |-> <<>>])
                    ELSE ls
             li == LayerIndex(ls1, layer)
             vals == ls1[li].values
             vals1 == IF ValueIndex(vals, stateField) = 0
                      THEN Append(vals, [value |-> stateField, baseStateList |-> baseStateList,
                                         dependencies |-> <<>>])
                      ELSE [vals EXCEPT ![ValueIndex(vals, stateField)].baseStateList =
                                            @ \o NotIn(@, baseStateList)]
             vi == ValueIndex(vals1, stateField)
             vals2 == IF Len(stateFields) > 1 /\ dependency # <<>>
                      THEN [vals1 EXCEPT ![vi].dependencies =
                                Append(@, [dependency |-> dependency,
                                           baseStateList |-> baseStateList])]
                      ELSE vals1
             dep2 == IF Len(stateFields) > 1 THEN Assign(dependency, layer, stateField)
                     ELSE dependency
         IN AddFragmentLayers([ls1 EXCEPT ![li].values = vals2], stateFields, i + 1, dep2,
                              baseStateList)

\* isDependencySatisfied(baseState, stateDependency, state)
isDependencySatisfied(baseState, stateDependency, state) ==
    IF stateDependency.dependencies = <<>>
    THEN baseState \in Range(stateDependency.baseStateList)
    ELSE \E i \in DOMAIN stateDependency.dependencies :
            /\ baseState \in Range(stateDependency.dependencies[i].baseStateList)
            /\ isSubstate(stateDependency.dependencies[i].dependency, state)

\* ApplicableStates stopping at the first value that applies
RECURSIVE ApplicableStatesFirst(_, _, _)
ApplicableStatesFirst(state, layer, vals) ==
    IF vals = <<>> THEN <<>>
    ELSE IF isDependencySatisfied(Get(state, "base"), Head(vals), state)
         THEN <<Assign(state, layer, Head(vals).value)>>
         ELSE ApplicableStatesFirst(state, layer, Tail(vals))

\* the innermost loop of computeCompositeStates: the states that one
\* semi-generated state gives in one layer
RECURSIVE ApplicableStates(_, _, _)
ApplicableStates(state, layer, vals) ==
    IF vals = <<>> THEN <<>>
    ELSE IF isDependencySatisfied(Get(state, "base"), Head(vals), state)
         THEN <<Assign(state, layer, Head(vals).value)>>
                  \o ApplicableStates(state, layer, Tail(vals))
         ELSE ApplicableStates(state, layer, Tail(vals))

\* ExpandLayer leaving out the states that no value of the layer applies to
RECURSIVE ExpandLayerLenient(_, _, _)
ExpandLayerLenient(sts, layerRec, newStates) ==
    IF sts = <<>> THEN [thrown |-> FALSE, states |-> newStates, info |-> <<>>]
    ELSE ExpandLayerLenient(Tail(sts), layerRec,
                            newStates \o ApplicableStates(Head(sts), layerRec.name, layerRec.values))

\* the loop of computeCompositeStates over the semi-generated states, for one layer
RECURSIVE ExpandLayer(_, _, _)
ExpandLayer(sts, layerRec, newStates) ==
    IF sts = <<>> THEN [thrown |-> FALSE, states |-> newStates, info |-> <<>>]
    ELSE LET used == ApplicableStates(Head(sts), layerRec.name, layerRec.values)
         IN IF used = <<>>
            THEN [thrown |-> TRUE, states |-> <<>>,
                  info |-> <<layerRec.name, Get(Head(sts), "base")>>]
            ELSE ExpandLayer(Tail(sts), layerRec, newStates \o used)

\* the loop of computeCompositeStates over the layers
RECURSIVE ExpandLayers(_, _)
ExpandLayers(ls, sts) ==
    IF ls = <<>> THEN [thrown |-> FALSE, states |-> sts, info |-> <<>>]
    ELSE LET r == ExpandLayer(sts, Head(ls), <<>>)
         IN IF r.thrown THEN r ELSE ExpandLayers(Tail(ls), r.states)

\* computeCompositeStates()
computeCompositeStates ==
    ExpandLayers(layers, [i \in DOMAIN states |-> <<<<"base", states[i]>>>>])

\* isValidState answering for any fragment once there is an expanded state
isValidStateAny(state, expansion) == expansion # <<>>

\* isValidState(state), given the expansion
isValidState(state, expansion) ==
    \E i \in DOMAIN expansion : isSubstate(state, expansion[i])

\* the fragments and base state lists that are declared
FragmentInputs ==
    { << <<"loggedIn", "yes">> >>, << <<"loggedIn", "no">> >>, << <<"vip", "yes">> >>,
      << <<"loggedIn", "yes">>, <<"vip", "yes">> >>,
      << <<"loggedIn", "yes">>, <<"vip", "no">> >>,
      << <<"loggedIn", "no">>, <<"vip", "no">> >>,
      << <<"vip", "yes">>, <<"loggedIn", "no">> >> }

BaseListInputs == { <<"foo">>, <<"foo", "bar">> }

CompositeTransitionInputs ==
    { << << <<"base", "foo">>, <<"vip", "no">> >>, << <<"vip", "yes">> >>, 1 >>,
      << << <<"base", "foo">>, <<"vip", "no">> >>, << <<"vip", "yes">> >>, 2 >>,
      << << <<"loggedIn", "no">>, <<"vip", "yes">> >>, << <<"vip", "yes">> >>, 1 >>,
      << << <<"base", "foo">> >>, << <<"base", "bar">> >>, 1 >>,
      << << <<"base", "foo">> >>, << <<"base", "bird">> >>, 1 >> }

\* the fragments handed to getNeighbors
NeighborInputs ==
    { << <<"base", "foo">> >>, << <<"base", "foo">>, <<"vip", "no">> >>,
      << <<"vip", "yes">> >>, << <<"base", "bird">> >> }

\* addCompositeState(stateFields, baseStateList, testCriteriaCallback), called as op
\* DeclareFragment with the fragment as it was written for its key, the keys not
\* sorted
DeclareFragmentUnsorted(op, stateFields, baseStateList) ==
    LET c == [NoCall EXCEPT !.op = op, !.fields = stateFields, !.stateList = baseStateList]
        stateString == stateFields
    IN IF stateString \in DOMAIN compositeFragments
       THEN /\ Declared(c, Err("already exists", <<stateString>>))
            /\ UNCHANGED declVars
       ELSE /\ compositeFragments' =
                   [k \in DOMAIN compositeFragments \cup {stateString} |->
                       IF k = stateString
                       THEN [stateFields |-> stateFields, baseStateList |-> baseStateList]
                       ELSE compositeFragments[k]]
            /\ layers' = AddFragmentLayers(layers, stateFields, 1, <<>>, baseStateList)
            /\ Declared(c, Ok(<<>>, NULL))
            /\ UNCHANGED <<states, neighbors, fragmentTransitions, compositeStates>>

DeclareFragment(op, stateFields, baseStateList) ==
    LET c == [NoCall EXCEPT !.op = op, !.fields = stateFields, !.stateList = baseStateList]
        stateString == stateToString(AsMap(stateFields))
    IN IF stateString \in DOMAIN compositeFragments
       THEN /\ Declared(c, Err("already exists", <<stateString>>))
            /\ UNCHANGED declVars
       ELSE /\ compositeFragments' =
                   [k \in DOMAIN compositeFragments \cup {stateString} |->
                       IF k = stateString
                       THEN [stateFields |-> stateFields, baseStateList |-> baseStateList]
                       ELSE compositeFragments[k]]
            /\ layers' = AddFragmentLayers(layers, stateFields, 1, <<>>, baseStateList)
            /\ Declared(c, Ok(<<>>, NULL))
            /\ UNCHANGED <<states, neighbors, fragmentTransitions, compositeStates>>

addCompositeState(stateFields, baseStateList) ==
    /\ pc = "idle"
    /\ \/ stateToString(AsMap(stateFields)) \in DOMAIN compositeFragments
       \/ Cardinality(DOMAIN compositeFragments) < MaxFragments
    /\ DeclareFragment("addCompositeState", stateFields, baseStateList)

\* the filter callback of addDefaultCompositeState for one base state, from the
\* i-th layer of the fragment on: Object.values(this.layers[layer]) throws a
\* TypeError for a layer that does not exist yet
RECURSIVE DefaultFilter(_, _, _)
DefaultFilter(state, stateFields, i) ==
    IF i > Len(stateFields) THEN "keep"
    ELSE LET li == LayerIndex(layers, stateFields[i][1])
         IN IF li = 0 THEN "throw"
            ELSE IF \E v \in DOMAIN layers[li].values :
                        state \in Range(layers[li].values[v].baseStateList)
            THEN "drop"
            ELSE DefaultFilter(state, stateFields, i + 1)

\* this.states.filter(...) of addDefaultCompositeState
RECURSIVE DefaultBaseStateList(_, _)
DefaultBaseStateList(sts, stateFields) ==
    IF sts = <<>> THEN <<>>
    ELSE IF DefaultFilter(Head(sts), stateFields, 1) = "keep"
         THEN <<Head(sts)>> \o DefaultBaseStateList(Tail(sts), stateFields)
         ELSE DefaultBaseStateList(Tail(sts), stateFields)

addDefaultCompositeState(stateFields) ==
    /\ pc = "idle"
    /\ \/ stateToString(AsMap(stateFields)) \in DOMAIN compositeFragments
       \/ Cardinality(DOMAIN compositeFragments) < MaxFragments
    /\ IF \E i \in DOMAIN states : DefaultFilter(states[i], stateFields, 1) = "throw"
       THEN /\ Declared([NoCall EXCEPT !.op = "addDefaultCompositeState", !.fields = stateFields],
                         Err("TypeError", <<>>))
            /\ UNCHANGED declVars
       ELSE DeclareFragment("addDefaultCompositeState", stateFields,
                            DefaultBaseStateList(states, stateFields))

\* allStates() without a filter
allStates ==
    /\ pc = "idle"
    /\ LET r == computeCompositeStates
           c == [NoCall EXCEPT !.op = "allStates"]
       IN IF r.thrown
          THEN /\ Declared(c, Err("No composite state", r.info))
               /\ UNCHANGED declVars
          ELSE /\ compositeStates' = r.states
               /\ Declared(c, Ok(<<>>, NULL))
               /\ UNCHANGED <<states, neighbors, fragmentTransitions, compositeFragments, layers>>

\* addCompositeStateTransition(startState, endState, transitionLogicCallback, cost)
addCompositeStateTransition(startState, endState, cost) ==
    /\ pc = "idle"
    /\ LET c == [NoCall EXCEPT !.op = "addCompositeStateTransition", !.fields = startState,
                               !.endFields = endState, !.cost = cost]
           r == computeCompositeStates
           expandedEndStateFragment == Merge(startState, endState)
           key == <<stateToString(AsMap(startState)), stateToString(AsMap(endState))>>
       IN IF r.thrown
          THEN /\ Declared(c, Err("No composite state", r.info))
               /\ UNCHANGED declVars
          ELSE /\ compositeStates' = r.states
               /\ UNCHANGED <<states, neighbors, compositeFragments, layers>>
               /\ IF ~isValidState(startState, r.states)
                  THEN /\ Declared(c, Err("No generated state matches", <<"start">>))
                       /\ UNCHANGED fragmentTransitions
                  ELSE IF ~isValidState(expandedEndStateFragment, r.states)
                  THEN /\ Declared(c, Err("No generated state matches", <<"end">>))
                       /\ UNCHANGED fragmentTransitions
                  ELSE IF key \in DOMAIN fragmentTransitions /\ fragmentTransitions[key] < cost
                  THEN /\ Declared(c, Err("cheaper path", <<fragmentTransitions[key]>>))
                       /\ UNCHANGED fragmentTransitions
                  ELSE /\ fragmentTransitions' = Put(fragmentTransitions, key, cost)
                       /\ Declared(c, Ok(<<>>, NULL))

\* util.stringToState(string): the object that was last serialised to this key;
\* it has the pairs that the key lists
stringToState(string) == [i \in DOMAIN string |-> <<string[i][1], string[i][2]>>]

\* filterByLayer keeping the first match only
filterByLayerFirst(sts, filteredProps) ==
    IF \E i \in DOMAIN sts : isSubstate(filteredProps, sts[i])
    THEN <<sts[CHOOSE i \in DOMAIN sts :
                  /\ isSubstate(filteredProps, sts[i])
                  /\ \A j \in 1..(i - 1) : ~isSubstate(filteredProps, sts[j])]>>
    ELSE <<>>

\* util.filterByLayer(states, filteredProps)
RECURSIVE filterByLayer(_, _)
filterByLayer(sts, filteredProps) ==
    IF sts = <<>> THEN <<>>
    ELSE IF isSubstate(filteredProps, Head(sts))
         THEN <<Head(sts)>> \o filterByLayer(Tail(sts), filteredProps)
         ELSE filterByLayer(Tail(sts), filteredProps)

\* NextStates overlaying the end fragments on the resolved full state
NextStatesOnFull(startState, fullState) ==
    {Merge(fullState, stringToState(k[2])) :
        k \in {t \in DOMAIN fragmentTransitions : isSubstate(stringToState(t[1]), fullState)}}

\* the states that getNeighbors pushes for the one full state that matches:
\* {...startState, ...endState} for every end of every stored start fragment
\* that is a substate of the full state
NextStates(startState, fullState) ==
    {Merge(startState, stringToState(k[2])) :
        k \in {t \in DOMAIN fragmentTransitions : isSubstate(stringToState(t[1]), fullState)}}

\* getNeighbors(startState) for a composite fragment
getNeighbors(startState) ==
    /\ pc = "idle"
    /\ LET c == [NoCall EXCEPT !.op = "getNeighbors", !.fields = startState]
           r == computeCompositeStates
       IN IF r.thrown
          THEN /\ Declared(c, Err("No composite state", r.info))
               /\ UNCHANGED declVars
          ELSE /\ compositeStates' = r.states
               /\ UNCHANGED <<states, neighbors, fragmentTransitions, compositeFragments, layers>>
               /\ IF ~isValidState(startState, r.states)
                  THEN Declared(c, Err("not a valid state", <<stateToString(AsMap(startState))>>))
                  ELSE IF Len(filterByLayer(r.states, startState)) > 1
                  THEN Declared(c, Err("Multiple composite states match",
                                      <<stateToString(AsMap(startState))>>))
                  ELSE Declared(c, [Ok(<<>>, NULL) EXCEPT
                                      !.list = NextStates(startState,
                                                          filterByLayer(r.states, startState)[1])])

\* ------------------------------------------------------------------------
\* Navigation
\* ------------------------------------------------------------------------
Pages == SUBSET Range(states)

\* Drone.actions(logic): caller's logic run against the page outside of any navigation
actions(newPage) ==
    /\ pc = "idle"
    /\ page' = newPage
    /\ UNCHANGED <<declVars, peer, currentState, navVars>>

\* where control goes when traversePath has no edge left: back to ensureState or
\* ensureEitherState, which look at their actions argument, or to the caller
AfterTraverse(c) == IF c.op # "traversePath" THEN "continuation" ELSE "done"

\* entry into traversePath(p, retries) on behalf of call c
StartTraverse(c, p, chosen, seen) ==
    /\ call' = c
    /\ path' = p
    /\ routeIdx' = 1
    /\ retryAttempts' = 0
    /\ logicCalls' = [i \in 1..Len(p) |-> 0]
    /\ contCalls' = <<>>
    /\ lastSeen' = seen
    /\ paramsSeen' = [tests |-> IF c.op = "traversePath" THEN {} ELSE ClassifyArgs, logic |-> {}]
    /\ pc' = IF p = <<>> THEN AfterTraverse(c) ELSE "traverse"
    /\ result' = IF p = <<>> /\ AfterTraverse(c) = "done" THEN Ok(p, chosen) ELSE [NoResult EXCEPT !.path = p, !.state = chosen]

Fail(c, r, seen) ==
    /\ call' = c
    /\ pc' = "done"
    /\ result' = r
    /\ lastSeen' = seen
    /\ paramsSeen' = [tests |-> ClassifyArgs, logic |-> {}]
    /\ path' = <<>>
    /\ routeIdx' = 1
    /\ retryAttempts' = 0
    /\ logicCalls' = <<>>
    /\ contCalls' = <<>>

\* Drone.whereAmI() called by the user
whereAmI ==
    /\ pc = "idle"
    /\ Fail([NoCall EXCEPT !.op = "whereAmI"],
            Ok(<<>>, getCurrentState(page, currentState)),
            getCurrentState(page, currentState))
    /\ UNCHANGED <<declVars, peer, currentState, page>>

\* Drone.detailedWhereAmI(): getCurrentStateDetail classifies the base state and
\* then iterates `for (const layer of this.layers)`; this.layers is a plain
\* object, which is not iterable, so the loop throws a TypeError before the first
\* layer is looked at, whatever has been declared
getCurrentStateDetail ==
    /\ pc = "idle"
    /\ Fail([NoCall EXCEPT !.op = "getCurrentStateDetail"],
            Err("TypeError", <<>>),
            getCurrentState(page, currentState))
    /\ UNCHANGED <<declVars, peer, currentState, page>>

\* findPathToState storing the classification it made as the cached state
callFindPathToStateCaching(stateName) ==
    /\ pc = "idle"
    /\ Fail([NoCall EXCEPT !.op = "findPathToState", !.target = stateName],
            findPathToState(stateName), getCurrentState(page, currentState))
    /\ currentState' = getCurrentState(page, currentState)
    /\ UNCHANGED <<declVars, peer, page>>

\* Drone.findPathToState(stateName) called by the user
callFindPathToState(stateName) ==
    /\ pc = "idle"
    /\ Fail([NoCall EXCEPT !.op = "findPathToState", !.target = stateName],
            findPathToState(stateName), getCurrentState(page, currentState))
    /\ UNCHANGED <<declVars, peer, currentState, page>>

\* Drone.ensureState(stateName, params, actions, retries)
ensureState(stateName, retries) ==
    /\ pc = "idle"
    /\ LET c == [NoCall EXCEPT !.op = "ensureState", !.target = stateName,
                               !.retries = retries]
           r == findPathToState(stateName)
           seen == getCurrentState(page, currentState)
       IN IF r.error # "none" THEN Fail(c, r, seen)
          ELSE StartTraverse(c, r.path, stateName, seen)
    /\ UNCHANGED <<declVars, peer, currentState, page>>

\* the for loop of ensureEitherState over stateList
RECURSIVE EitherScan(_, _)
EitherScan(stateList, cheapest) ==
    IF stateList = <<>> THEN cheapest
    ELSE LET r == findPathToState(Head(stateList))
         IN IF r.error = "No route exists" THEN EitherScan(Tail(stateList), cheapest)
            ELSE IF r.error # "none" THEN [cheapest EXCEPT !.thrown = r]
            ELSE IF PathCost(r.path) < cheapest.cost
            THEN EitherScan(Tail(stateList),
                            [cheapest EXCEPT !.cost = PathCost(r.path), !.path = r.path,
                                             !.state = Head(stateList), !.found = TRUE])
            ELSE EitherScan(Tail(stateList), cheapest)

NoCheapest == [cost |-> Infinity, path |-> <<>>, state |-> "undefined", found |-> FALSE, thrown |-> NoResult]

\* Drone.ensureEitherState(stateList, params, actions, retries)
ensureEitherState(stateList, retries) ==
    /\ pc = "idle"
    /\ LET c == [NoCall EXCEPT !.op = "ensureEitherState", !.stateList = stateList,
                               !.retries = retries]
           cheapest == EitherScan(stateList, NoCheapest)
           seen == getCurrentState(page, currentState)
       IN IF cheapest.thrown # NoResult THEN Fail(c, cheapest.thrown, seen)
          ELSE IF ~cheapest.found THEN Fail(c, Err("No route exists", stateList), seen)
          ELSE StartTraverse(c, cheapest.path, cheapest.state, seen)
    /\ UNCHANGED <<declVars, peer, currentState, page>>

\* Drone.traversePath(path, retries, params)
traversePath(p, retries) ==
    /\ pc = "idle"
    /\ StartTraverse([NoCall EXCEPT !.op = "traversePath", !.retries = retries], p, NULL, NoObs)
    /\ UNCHANGED <<declVars, peer, currentState, page>>

\* Attempt taking every attempt for a success
AttemptUnverified(newPage) ==
    /\ pc = "traverse"
    /\ routeIdx <= Len(path)
    /\ retryAttempts < call.retries
    /\ page' = newPage
    /\ logicCalls' = [logicCalls EXCEPT ![routeIdx] = @ + 1]
    /\ lastSeen' = getCurrentState(newPage, currentState)
    /\ paramsSeen' = [tests |-> paramsSeen.tests \cup ClassifyArgs,
                      logic |-> paramsSeen.logic \cup {CallerParams}]
    /\ currentState' = path[routeIdx][2]
    /\ routeIdx' = routeIdx + 1
    /\ retryAttempts' = 0
    /\ pc' = IF routeIdx < Len(path) THEN "traverse" ELSE AfterTraverse(call)
    /\ result' = IF routeIdx = Len(path) /\ AfterTraverse(call) = "done"
                 THEN Ok(path, result.state) ELSE result
    /\ UNCHANGED <<declVars, peer, call, path, contCalls>>

\* Attempt leaving the cached state alone when the edge was not traversed
AttemptUndocumented(newPage) ==
    /\ pc = "traverse"
    /\ routeIdx <= Len(path)
    /\ retryAttempts < call.retries
    /\ LET end == path[routeIdx][2]
           newState == getCurrentState(newPage, currentState)
       IN /\ page' = newPage
          /\ logicCalls' = [logicCalls EXCEPT ![routeIdx] = @ + 1]
          /\ lastSeen' = newState
          /\ paramsSeen' = [tests |-> paramsSeen.tests \cup ClassifyArgs,
                            logic |-> paramsSeen.logic \cup {CallerParams}]
          /\ IF newState # end
             THEN /\ retryAttempts' = retryAttempts + 1
                  /\ UNCHANGED <<currentState, routeIdx, pc, result>>
             ELSE /\ currentState' = end
                  /\ routeIdx' = routeIdx + 1
                  /\ retryAttempts' = 0
                  /\ pc' = IF routeIdx < Len(path) THEN "traverse" ELSE AfterTraverse(call)
                  /\ result' = IF routeIdx = Len(path) /\ AfterTraverse(call) = "done"
                               THEN Ok(path, result.state) ELSE result
    /\ UNCHANGED <<declVars, peer, call, path, contCalls>>

\* Attempt with retryAttempts carried over to the next edge
AttemptNoReset(newPage) ==
    /\ pc = "traverse"
    /\ routeIdx <= Len(path)
    /\ retryAttempts < call.retries
    /\ LET end == path[routeIdx][2]
           newState == getCurrentState(newPage, currentState)
       IN /\ page' = newPage
          /\ logicCalls' = [logicCalls EXCEPT ![routeIdx] = @ + 1]
          /\ lastSeen' = newState
          /\ paramsSeen' = [tests |-> paramsSeen.tests \cup ClassifyArgs,
                            logic |-> paramsSeen.logic \cup {CallerParams}]
          /\ retryAttempts' = retryAttempts + 1
          /\ IF newState # end
             THEN /\ currentState' = newState
                  /\ UNCHANGED <<routeIdx, pc, result>>
             ELSE /\ currentState' = end
                  /\ routeIdx' = routeIdx + 1
                  /\ pc' = IF routeIdx < Len(path) THEN "traverse" ELSE AfterTraverse(call)
                  /\ result' = IF routeIdx = Len(path) /\ AfterTraverse(call) = "done"
                               THEN Ok(path, result.state) ELSE result
    /\ UNCHANGED <<declVars, peer, call, path, contCalls>>

\* one pass of the while loop of traversePath: attempt(start, end) and the
\* bookkeeping that follows it
Attempt(newPage) ==
    /\ pc = "traverse"
    /\ routeIdx <= Len(path)
    /\ retryAttempts < call.retries
    /\ LET end == path[routeIdx][2]
           newState == getCurrentState(newPage, currentState)
       IN /\ page' = newPage
          /\ logicCalls' = [logicCalls EXCEPT ![routeIdx] = @ + 1]
          /\ lastSeen' = newState
          /\ paramsSeen' = [tests |-> paramsSeen.tests \cup ClassifyArgs,
                            logic |-> paramsSeen.logic \cup {CallerParams}]
          /\ IF newState # end
             THEN /\ currentState' = newState
                  /\ retryAttempts' = retryAttempts + 1
                  /\ UNCHANGED <<routeIdx, pc, result>>
             ELSE /\ currentState' = end
                  /\ routeIdx' = routeIdx + 1
                  /\ retryAttempts' = 0
                  /\ pc' = IF routeIdx < Len(path) THEN "traverse" ELSE AfterTraverse(call)
                  /\ result' = IF routeIdx = Len(path) /\ AfterTraverse(call) = "done"
                               THEN Ok(path, result.state) ELSE result
    /\ UNCHANGED <<declVars, peer, call, path, contCalls>>

\* AttemptThrows with the error caught and counted as a failed attempt
AttemptThrowsRetried ==
    /\ pc = "traverse"
    /\ routeIdx <= Len(path)
    /\ retryAttempts < call.retries
    /\ page' = page
    /\ logicCalls' = [logicCalls EXCEPT ![routeIdx] = @ + 1]
    /\ retryAttempts' = retryAttempts + 1
    /\ result' = Err("driver", <<path[routeIdx][1], path[routeIdx][2]>>)
    /\ lastSeen' = NoObs
    /\ paramsSeen' = [paramsSeen EXCEPT !.logic = @ \cup {CallerParams}]
    /\ UNCHANGED <<declVars, peer, currentState, call, path, routeIdx, pc, contCalls>>

\* the transition logic throws: the error leaves traversePath as it is. What the
\* logic did to the page before it threw is left to a later actions(...)
AttemptThrows ==
    /\ pc = "traverse"
    /\ routeIdx <= Len(path)
    /\ retryAttempts < call.retries
    /\ page' = page
    /\ logicCalls' = [logicCalls EXCEPT ![routeIdx] = @ + 1]
    /\ pc' = "done"
    /\ result' = Err("driver", <<path[routeIdx][1], path[routeIdx][2]>>)
    /\ lastSeen' = NoObs
    /\ paramsSeen' = [paramsSeen EXCEPT !.logic = @ \cup {CallerParams}]
    /\ UNCHANGED <<declVars, peer, currentState, call, path, routeIdx, retryAttempts, contCalls>>

\* the while loop ends without success
GiveUp ==
    /\ pc = "traverse"
    /\ routeIdx <= Len(path)
    /\ retryAttempts >= call.retries
    /\ pc' = "done"
    /\ result' = Err("Failed to traverse", <<path[routeIdx][1], path[routeIdx][2], call.retries>>)
    /\ UNCHANGED <<declVars, peer, currentState, page, call, path, routeIdx, retryAttempts,
                   logicCalls, contCalls, lastSeen, paramsSeen>>

\* what the continuation is handed besides the page: ensureState passes the
\* caller's params, ensureEitherState passes this.params, which Drone never sets,
\* and the chosen state
ContinuationArgs(c, chosen) ==
    IF c.op = "ensureEitherState"
    THEN [params |-> Undefined, state |-> chosen]
    ELSE [params |-> CallerParams, state |-> Undefined]

\* typeof actions === 'function': actions(this.page, params) after the traversal
Continuation ==
    /\ pc = "continuation"
    /\ contCalls' = Append(contCalls, ContinuationArgs(call, result.state))
    /\ pc' = "done"
    /\ result' = Ok(path, result.state)
    /\ UNCHANGED <<declVars, peer, currentState, page, call, path, routeIdx, retryAttempts,
                   logicCalls, lastSeen, paramsSeen>>

\* no actions argument was given: the call resolves after the traversal
NoContinuation ==
    /\ pc = "continuation"
    /\ pc' = "done"
    /\ result' = Ok(path, result.state)
    /\ UNCHANGED <<declVars, peer, currentState, page, call, path, routeIdx, retryAttempts,
                   logicCalls, contCalls, lastSeen, paramsSeen>>

\* the call's promise settles and the caller goes on
Return ==
    /\ pc = "done"
    /\ pc' = "idle"
    /\ call' = NoCall
    /\ path' = <<>>
    /\ routeIdx' = 1
    /\ retryAttempts' = 0
    /\ result' = NoResult
    /\ logicCalls' = <<>>
    /\ contCalls' = <<>>
    /\ lastSeen' = NoObs
    /\ paramsSeen' = NoParamsSeen
    /\ UNCHANGED <<declVars, peer, currentState, page>>

\* ------------------------------------------------------------------------
\* A second ensureState on the same instance, one step per await
\* ------------------------------------------------------------------------
\* the step of the second call finds the page as the call left it, or not
PeerStep(next) ==
    peer' = [next EXCEPT !.disturbed = peer.disturbed \/ page # peer.pageLeft,
                         !.pageLeft = page']

\* Drone.ensureState(stateName, params, actions, retries) of the second call:
\* the route is computed, traversePath is entered
PeerEnsureState(stateName, retries) ==
    /\ peer.pc = "idle"
    /\ LET r == findPathToState(stateName)
       IN peer' = IF r.error # "none"
                  THEN [NoPeer EXCEPT !.pc = "done", !.target = stateName, !.pageLeft = page]
                  ELSE [NoPeer EXCEPT !.pc = IF r.path = <<>> THEN "continuation" ELSE "logic",
                                      !.target = stateName, !.path = r.path,
                                      !.retries = retries, !.pageLeft = page]
    /\ UNCHANGED <<declVars, currentState, page, navVars>>

\* await this.neighbors[start][end].logic(page, params): the logic leaves the
\* page in the declared end state of the edge
PeerLogic ==
    /\ peer.pc = "logic"
    /\ page' = {peer.path[peer.routeIdx][2]}
    /\ PeerStep([peer EXCEPT !.pc = "classify", !.seen = NoObs])
    /\ UNCHANGED <<declVars, currentState, navVars>>

\* let newState = await this.getCurrentState(page, params)
PeerClassify ==
    /\ peer.pc = "classify"
    /\ UNCHANGED <<declVars, currentState, page, navVars>>
    /\ PeerStep([peer EXCEPT !.pc = "commit", !.seen = getCurrentState(page, currentState)])

\* PeerCommit documenting the target of the call instead of the end of the edge
PeerCommitTarget ==
    /\ peer.pc = "commit"
    /\ UNCHANGED <<declVars, page, navVars>>
    /\ LET end == peer.path[peer.routeIdx][2]
       IN IF peer.seen # end
          THEN /\ currentState' = peer.seen
               /\ PeerStep([peer EXCEPT !.retryAttempts = @ + 1,
                                         !.pc = IF peer.retryAttempts + 1 < peer.retries
                                                THEN "logic" ELSE "done"])
          ELSE /\ currentState' = peer.target
               /\ PeerStep([peer EXCEPT !.routeIdx = @ + 1, !.retryAttempts = 0,
                                         !.corrupt = @ \/ page # {peer.target},
                                         !.pc = IF peer.routeIdx < Len(peer.path)
                                                THEN "logic" ELSE "continuation"])

\* the rest of attempt() and of the loop body once the classification is in: a
\* wrong state is documented and the edge retried or given up, the right state
\* is documented as the end of the edge and the next edge is taken
PeerCommit ==
    /\ peer.pc = "commit"
    /\ UNCHANGED <<declVars, page, navVars>>
    /\ LET end == peer.path[peer.routeIdx][2]
       IN IF peer.seen # end
          THEN /\ currentState' = peer.seen
               /\ PeerStep([peer EXCEPT !.retryAttempts = @ + 1,
                                         !.pc = IF peer.retryAttempts + 1 < peer.retries
                                                THEN "logic" ELSE "done"])
          ELSE /\ currentState' = end
               /\ PeerStep([peer EXCEPT !.routeIdx = @ + 1, !.retryAttempts = 0,
                                         !.corrupt = @ \/ page # {end},
                                         !.pc = IF peer.routeIdx < Len(peer.path)
                                                THEN "logic" ELSE "continuation"])

\* return await actions(this.page, params) of the second call
PeerContinuation ==
    /\ peer.pc = "continuation"
    /\ UNCHANGED <<declVars, currentState, page, navVars>>
    /\ PeerStep([peer EXCEPT !.pc = "done", !.continued = TRUE,
                             !.corrupt = @ \/ page # {peer.target}])

\* the promise of the second call settles
PeerReturn ==
    /\ peer.pc = "done"
    /\ peer' = NoPeer
    /\ UNCHANGED <<declVars, currentState, page, navVars>>

\* ------------------------------------------------------------------------
\* Specifications
\* ------------------------------------------------------------------------
Idle ==
    /\ pc = "idle"
    /\ call = NoCall
    /\ path = <<>>
    /\ routeIdx = 1
    /\ retryAttempts = 0
    /\ result = NoResult
    /\ logicCalls = <<>>
    /\ contCalls = <<>>
    /\ lastSeen = NoObs
    /\ paramsSeen = NoParamsSeen
    /\ peer = NoPeer

Init ==
    /\ states = <<>>
    /\ neighbors = <<>>
    /\ fragmentTransitions = <<>>
    /\ compositeFragments = <<>>
    /\ layers = <<>>
    /\ compositeStates = <<>>
    /\ currentState = NULL
    /\ page = {}
    /\ Idle

Targets == Names \cup {UnknownName}

EitherInputs ==
    { <<"foo", "baz">>, <<"baz", "foo">>, <<"baz", "bar">>, <<"bar", "bird">>, <<"bird", "bar">> }

\* chains of declared transitions, as a caller of traversePath would build them
DeclaredPaths ==
    {p \in UNION {[1..n -> DOMAIN neighbors] : n \in 1..MaxPathLen} :
        \A i \in 1..(Len(p) - 1) : p[i][2] = p[i + 1][1]}

Next ==
    \/ \E n \in AddStateInputs : addState(n)
    \/ \E t \in TransitionInputs : addStateTransition(t[1], t[2], t[3])
    \/ \E d \in DefaultInputs : addDefaultStateTransition(d[1], d[2])
    \/ \E pg \in Pages : actions(pg)
    \/ whereAmI
    \/ \E t \in Targets : callFindPathToState(t)
    \/ \E t \in Targets, r \in Retries : ensureState(t, r)
    \/ \E l \in EitherInputs, r \in Retries : ensureEitherState(l, r)
    \/ \E p \in DeclaredPaths, r \in Retries : traversePath(p, r)
    \/ \E pg \in Pages : Attempt(pg)
    \/ AttemptThrows
    \/ GiveUp
    \/ Continuation
    \/ NoContinuation
    \/ Return

Spec == Init /\ [][Next]_vars

\* ------------------------------------------------------------------------
\* Routing over every small transition graph
\* ------------------------------------------------------------------------
AllEdges == {e \in (Names \cup {BAD_STATE}) \X Names : e[1] # e[2]}

\* the neighbour tables that declarations over Names can build
RouteGraphs ==
    UNION {[E -> Costs] : E \in {X \in SUBSET AllEdges : Cardinality(X) <= MaxRouteEdges}}

\* what addStateTransition has mirrored into the fragment transitions
MirrorOf(nb) ==
    [k \in {<<stateToString([base |-> e[1]]), stateToString([base |-> e[2]])>> :
                e \in {d \in DOMAIN nb : d[1] # BAD_STATE}}
        |-> nb[<<k[1][1][2], k[2][1][2]>>]]

InitRoute ==
    /\ states = NameOrder
    /\ neighbors \in RouteGraphs
    /\ fragmentTransitions = MirrorOf(neighbors)
    /\ compositeFragments = <<>>
    /\ layers = <<>>
    /\ compositeStates = <<>>
    /\ currentState = NULL
    /\ page \in {{}} \cup {{n} : n \in Names}
    /\ Idle

NextRoute ==
    \/ \E t \in Targets : callFindPathToState(t)
    \/ Return

SpecRoute == InitRoute /\ [][NextRoute]_vars

\* ------------------------------------------------------------------------
\* Routing and traversal over every small transition graph
\* ------------------------------------------------------------------------
\* what the page is classified as after a transition logic: one registered state
\* or none
TermPages == {{}} \cup {{n} : n \in Names}

NextTerm ==
    \/ \E t \in Targets : callFindPathToState(t)
    \/ \E t \in Names, r \in Retries : ensureState(t, r)
    \/ \E pg \in TermPages : Attempt(pg)
    \/ GiveUp
    \/ NoContinuation
    \/ Return

SpecTerm == InitRoute /\ [][NextTerm]_vars

\* ------------------------------------------------------------------------
\* Navigation when every transition logic does what it was declared to do
\* ------------------------------------------------------------------------
\* the page is in exactly one registered state
InitIdeal ==
    /\ states = NameOrder
    /\ neighbors \in RouteGraphs
    /\ fragmentTransitions = MirrorOf(neighbors)
    /\ compositeFragments = <<>>
    /\ layers = <<>>
    /\ compositeStates = <<>>
    /\ currentState = NULL
    /\ page \in {{n} : n \in Names}
    /\ Idle

\* an attempt whose transition logic leaves the page in the declared end state of
\* its edge, and in no other state
AttemptIdeal ==
    /\ pc = "traverse"
    /\ routeIdx <= Len(path)
    /\ Attempt({path[routeIdx][2]})

\* the page changes through transition logic only, the caller passes a
\* continuation and a positive number of retries
NextIdeal ==
    \/ \E t \in Targets, r \in Retries \ {0} : ensureState(t, r)
    \/ AttemptIdeal
    \/ Continuation
    \/ Return

\* an async function that has been called runs on: each await resolves, so the
\* next attempt and the continuation are taken when they are due
FairIdeal == WF_vars(AttemptIdeal) /\ WF_vars(Continuation)

SpecIdeal == InitIdeal /\ [][NextIdeal]_vars /\ FairIdeal

\* ------------------------------------------------------------------------
\* Two ensureState calls on one instance, with transition logic that does what
\* it was declared to do
\* ------------------------------------------------------------------------
\* foo -> bar -> baz -> foo, cost 1 each
CycleGraph == (<<"foo", "bar">> :> 1) @@ (<<"bar", "baz">> :> 1) @@ (<<"baz", "foo">> :> 1)

InitOverlap ==
    /\ states = NameOrder
    /\ neighbors = CycleGraph
    /\ fragmentTransitions = MirrorOf(neighbors)
    /\ compositeFragments = <<>>
    /\ layers = <<>>
    /\ compositeStates = <<>>
    /\ currentState = NULL
    /\ page \in {{n} : n \in Names}
    /\ Idle

\* the calls are started and resumed in any order: either strictly one after the
\* other or interleaved at their awaits
NextOverlap ==
    \/ \E t \in Names : ensureState(t, 1)
    \/ AttemptIdeal
    \/ Continuation
    \/ Return
    \/ \E t \in Names, r \in Retries \ {0} : PeerEnsureState(t, r)
    \/ PeerLogic
    \/ PeerClassify
    \/ PeerCommit
    \/ PeerContinuation
    \/ PeerReturn

SpecOverlap == InitOverlap /\ [][NextOverlap]_vars

\* ------------------------------------------------------------------------
\* The declaration phase alone, with names that are not registered, names that
\* objects inherit, and every cost for a transition that is declared again
\* ------------------------------------------------------------------------
DeclStateInputs == AddStateInputs \cup InheritedNames

DeclTransitionInputs ==
    TransitionInputs \cup {<<"foo", "bar", c>> : c \in Costs} \cup {<<"bar", "foo", c>> : c \in Costs}
        \cup {<<"foo", n, 1>> : n \in InheritedNames}

DeclDefaultInputs == DefaultInputs \cup {<<n, 1>> : n \in InheritedNames}

NextDecl ==
    \/ \E n \in DeclStateInputs : addState(n)
    \/ \E t \in DeclTransitionInputs : addStateTransition(t[1], t[2], t[3])
    \/ \E d \in DeclDefaultInputs : addDefaultStateTransition(d[1], d[2])
    \/ Return

SpecDecl == Init /\ [][NextDecl]_vars

\* ------------------------------------------------------------------------
\* Composite declarations and queries over two registered base states
\* ------------------------------------------------------------------------
InitLayers ==
    /\ states = <<"foo", "bar">>
    /\ neighbors = <<>>
    /\ fragmentTransitions = <<>>
    /\ compositeFragments = <<>>
    /\ layers = <<>>
    /\ compositeStates = <<>>
    /\ currentState = NULL
    /\ page = {}
    /\ Idle

NextLayers ==
    \/ \E f \in FragmentInputs, l \in BaseListInputs : addCompositeState(f, l)
    \/ \E f \in FragmentInputs : addDefaultCompositeState(f)
    \/ allStates
    \/ \E t \in CompositeTransitionInputs : addCompositeStateTransition(t[1], t[2], t[3])
    \/ \E f \in NeighborInputs : getNeighbors(f)
    \/ Return

SpecLayers == InitLayers /\ [][NextLayers]_vars

\* ------------------------------------------------------------------------
\* Simple and composite transitions between the same base states
\* ------------------------------------------------------------------------
MirrorTransitions == { <<"foo", "bar", 1>>, <<"foo", "bar", 2>>, <<"bar", "foo", 1>> }

MirrorCompositeTransitions ==
    { << << <<"base", "foo">> >>, << <<"base", "bar">> >>, 1 >>,
      << << <<"base", "foo">> >>, << <<"base", "bar">> >>, 2 >>,
      << << <<"base", "bar">> >>, << <<"base", "foo">> >>, 0 >>,
      << << <<"base", "foo">> >>, << <<"loggedIn", "no">> >>, 1 >> }

NextMirror ==
    \/ \E f \in {<< <<"loggedIn", "yes">> >>, << <<"loggedIn", "no">> >>}, l \in BaseListInputs :
          addCompositeState(f, l)
    \/ \E t \in MirrorTransitions : addStateTransition(t[1], t[2], t[3])
    \/ \E t \in MirrorCompositeTransitions : addCompositeStateTransition(t[1], t[2], t[3])
    \/ Return

SpecMirror == InitLayers /\ [][NextMirror]_vars

\* ------------------------------------------------------------------------
\* The same fragments and transitions written with their keys in either order
\* ------------------------------------------------------------------------
OrderFragments ==
    { << <<"loggedIn", "yes">>, <<"vip", "no">> >>, << <<"vip", "no">>, <<"loggedIn", "yes">> >>,
      << <<"loggedIn", "yes">>, <<"vip", "yes">> >>, << <<"vip", "yes">>, <<"loggedIn", "yes">> >> }

OrderTransitions ==
    { << << <<"base", "foo">>, <<"vip", "no">> >>, << <<"base", "bar">>, <<"vip", "no">> >>, 1 >>,
      << << <<"vip", "no">>, <<"base", "foo">> >>, << <<"vip", "no">>, <<"base", "bar">> >>, 1 >>,
      << << <<"vip", "no">>, <<"base", "foo">> >>, << <<"vip", "no">>, <<"base", "bar">> >>, 2 >>,
      << << <<"base", "foo">>, <<"vip", "no">> >>, << <<"vip", "yes">> >>, 1 >> }

NextOrder ==
    \/ \E f \in OrderFragments, l \in BaseListInputs : addCompositeState(f, l)
    \/ \E t \in OrderTransitions : addCompositeStateTransition(t[1], t[2], t[3])
    \/ allStates
    \/ Return

SpecOrder == InitLayers /\ [][NextOrder]_vars

\* ------------------------------------------------------------------------
\* Queries between declarations, page changes and traversals
\* ------------------------------------------------------------------------
QueryFragments == { << <<"loggedIn", "yes">> >>, << <<"loggedIn", "no">> >> }

QueryTransitions == { <<"foo", "bar", 1>>, <<"bar", "foo", 1>> }

QueryTargets == {"foo", "bar", UnknownName}

NextQuery ==
    \/ \E f \in QueryFragments, l \in BaseListInputs : addCompositeState(f, l)
    \/ \E t \in QueryTransitions : addStateTransition(t[1], t[2], t[3])
    \/ \E pg \in Pages : actions(pg)
    \/ allStates
    \/ \E t \in QueryTargets : callFindPathToState(t)
    \/ getCurrentStateDetail
    \/ \E p \in DeclaredPaths : traversePath(p, 1)
    \/ \E pg \in Pages : Attempt(pg)
    \/ GiveUp
    \/ Return

SpecQuery == InitLayers /\ [][NextQuery]_vars

\* ------------------------------------------------------------------------
\* Reference notions the properties are stated with
\* ------------------------------------------------------------------------
WalkLen == Len(NameOrder) + 1

\* sequences of declared transitions in which each one starts where the last ended
Walks ==
    {w \in UNION {[1..n -> DOMAIN neighbors] : n \in 1..WalkLen} :
        \A i \in 1..(Len(w) - 1) : w[i][2] = w[i + 1][1]}

WalksTo(sources, t) == {w \in Walks : w[1][1] \in sources /\ w[Len(w)][2] = t}

\* a findPathToState call has settled
FoundPath == pc = "done" /\ call.op = "findPathToState"

\* a call that runs traversePath
Traversing == call.op \in {"ensureState", "ensureEitherState", "traversePath"}

\* the call was rejected by the route computation, before any traversal
RejectedInRouting == pc = "done" /\ path = <<>> /\ result.error \notin {"none", "pending"}

\* c is where the page was found, or transitions lead to it from there or from the sentinel
HasRoute(c) == c = lastSeen \/ WalksTo({lastSeen, BAD_STATE}, c) # {}

\* a query of allStates() has settled
Queried == pc = "done" /\ call.op = "allStates"

\* the value at position v of layer k applies to the partial state s
Applies(k, v, s) == isDependencySatisfied(Get(s, "base"), layers[k].values[v], s)

\* the partial states over the first k layers: every base state with, layer by
\* layer, every value that applies to what was chosen before
RECURSIVE PartialStates(_)
PartialStates(k) ==
    IF k = 0 THEN {<<<<"base", states[i]>>>> : i \in DOMAIN states}
    ELSE {Append(x[1], <<layers[k].name, layers[k].values[x[2]].value>>) :
             x \in {y \in PartialStates(k - 1) \X DOMAIN layers[k].values : Applies(k, y[2], y[1])}}

\* the <<layer, base state>> pairs for which a partial state has no value in the layer
Gaps ==
    {<<layers[x[1]].name, Get(x[2], "base")>> :
        x \in {y \in UNION {{k} \X PartialStates(k - 1) : k \in DOMAIN layers} :
                  \A v \in DOMAIN layers[y[1]].values : ~Applies(y[1], v, y[2])}}

\* the valid composite states that the layers ls give over their first k layers
RECURSIVE ValidStatesOf(_, _)
ValidStatesOf(ls, k) ==
    IF k = 0 THEN {<<<<"base", states[i]>>>> : i \in DOMAIN states}
    ELSE {Append(x[1], <<ls[k].name, ls[k].values[x[2]].value>>) :
             x \in {y \in ValidStatesOf(ls, k - 1) \X DOMAIN ls[k].values :
                       isDependencySatisfied(Get(y[1], "base"), ls[k].values[y[2]], y[1])}}

\* under the layers ls some stored fragment transition leads from a valid
\* composite state to a state that is not valid
SideEffectsIn(ls) ==
    \E t \in DOMAIN fragmentTransitions : \E F \in ValidStatesOf(ls, Len(ls)) :
        /\ isSubstate(stringToState(t[1]), F)
        /\ Merge(F, stringToState(t[2])) \notin ValidStatesOf(ls, Len(ls))

\* the expanded composite states that the fragment is a sub-map of
Matches(fragment) == {F \in PartialStates(Len(layers)) : isSubstate(fragment, F)}

\* a call of getNeighbors has settled
Neighboured == pc = "done" /\ call.op = "getNeighbors"

\* the declarations made so far
Declarations == {compositeFragments[k] : k \in DOMAIN compositeFragments}

\* the scenario of the test suite

TestGraph ==
    /\ states = <<"foo", "bar", "baz">>
    /\ neighbors = (<<"foo", "bar">> :> 1) @@ (<<"bar", "baz">> :> 1) @@
                   (<<"baz", "foo">> :> 1) @@ (<<BAD_STATE, "foo">> :> 2)

TypeOK ==
    /\ pc \in {"idle", "traverse", "continuation", "done"}
    /\ Range(states) \subseteq Names
    /\ page \subseteq Range(states)
    /\ currentState \in Range(states) \cup {NULL}

\* ------------------------------------------------------------------------
\* C1. From a position that no registered predicate recognises, with a default
\* transition declared, findPathToState(T) for a registered T that the default
\* transitions lead to returns a cheapest route that starts with a default edge
\* (sentinel, D); on foo->bar->baz->foo (cost 1 each) with a default transition
\* to foo (cost 2) the route to baz is (sentinel,foo), (foo,bar), (bar,baz).
C1_RouteFromUnknownPosition ==
    (FoundPath /\ lastSeen = NULL /\ IsState(call.target)
        /\ WalksTo({BAD_STATE}, call.target) # {})
    => /\ result.error = "none"
       /\ result.path \in WalksTo({BAD_STATE}, call.target)
       /\ \A w \in WalksTo({BAD_STATE}, call.target) : PathCost(result.path) <= PathCost(w)
       /\ (TestGraph /\ call.target = "baz")
            => result.path = << <<BAD_STATE, "foo">>, <<"foo", "bar">>, <<"bar", "baz">> >>

\* ------------------------------------------------------------------------
\* C2. From a recognised current state c, for a registered target t other than c
\* that declared transitions reach from c or from the sentinel, findPathToState
\* returns a chain of declared transitions from c or the sentinel to t whose total
\* cost is at most that of every such chain.
C2_ShortestPath ==
    (FoundPath /\ IsState(lastSeen) /\ IsState(call.target) /\ call.target # lastSeen
        /\ WalksTo({lastSeen, BAD_STATE}, call.target) # {})
    => /\ result.error = "none"
       /\ result.path \in WalksTo({lastSeen, BAD_STATE}, call.target)
       /\ \A w \in WalksTo({lastSeen, BAD_STATE}, call.target) :
              PathCost(result.path) <= PathCost(w)

\* a two-edge route was preferred to a costlier direct transition
C2_Witness ==
    /\ FoundPath /\ IsState(lastSeen) /\ result.error = "none"
    /\ Len(result.path) = 2
    /\ result.path[1][1] = lastSeen
    /\ \E w \in WalksTo({lastSeen, BAD_STATE}, call.target) :
          Len(w) = 1 /\ PathCost(w) > PathCost(result.path)

\* ------------------------------------------------------------------------
\* C7 as stated. Whenever the current state is a registered state without outgoing
\* transitions and a default transition to D is declared, findPathToState(D) is
\* exactly the single edge (sentinel, D).
C7_AsStated ==
    (FoundPath /\ IsState(lastSeen) /\ ~HasNeighbors(lastSeen)
        /\ <<BAD_STATE, call.target>> \in DOMAIN neighbors)
    => result = Ok(<< <<BAD_STATE, call.target>> >>, call.target)

\* C7 amended. The same, for D other than the current state and when no chain of
\* transitions from the sentinel to D is strictly cheaper than the default
\* transition to D.
C7_DefaultEdgeFromDeadEnd ==
    (FoundPath /\ IsState(lastSeen) /\ ~HasNeighbors(lastSeen)
        /\ <<BAD_STATE, call.target>> \in DOMAIN neighbors
        /\ call.target # lastSeen
        /\ \A w \in WalksTo({BAD_STATE}, call.target) :
              PathCost(w) >= neighbors[<<BAD_STATE, call.target>>])
    => result = Ok(<< <<BAD_STATE, call.target>> >>, call.target)

\* the single default edge was returned although another route costs the same
C7_Witness ==
    /\ FoundPath /\ IsState(lastSeen) /\ ~HasNeighbors(lastSeen)
    /\ <<BAD_STATE, call.target>> \in DOMAIN neighbors
    /\ call.target # lastSeen
    /\ result = Ok(<< <<BAD_STATE, call.target>> >>, call.target)
    /\ \E w \in WalksTo({BAD_STATE}, call.target) :
          Len(w) = 2 /\ PathCost(w) = neighbors[<<BAD_STATE, call.target>>]

\* ------------------------------------------------------------------------
\* C3. Whenever ensureState invokes the continuation, the latest classification
\* made by the call returned the target and no transition logic ran after it; the
\* continuation runs at most once per call and never in a call that ended with an
\* error.
C3_ContinuationOnlyWhenConfirmed ==
    call.op = "ensureState" =>
        /\ (pc = "continuation" \/ contCalls # <<>>) => lastSeen = call.target
        /\ Len(contCalls) <= 1
        /\ contCalls # <<>> => result.error = "none"
        /\ result.error \notin {"none", "pending"} => contCalls = <<>>

\* the continuation ran after a traversal that needed a second attempt
C3_Witness ==
    /\ call.op = "ensureState"
    /\ Len(contCalls) = 1
    /\ \E i \in DOMAIN logicCalls : logicCalls[i] = 2

\* ------------------------------------------------------------------------
\* the counts of C4 in every state of a traversal
C4_State ==
    Traversing =>
        /\ \A i \in DOMAIN logicCalls : logicCalls[i] <= call.retries
        /\ \A i \in DOMAIN logicCalls : i > routeIdx => logicCalls[i] = 0
        /\ (pc = "traverse" /\ routeIdx <= Len(path)) => retryAttempts = logicCalls[routeIdx]
        /\ result.error = "Failed to traverse" =>
              /\ pc = "done"
              /\ routeIdx <= Len(path)
              /\ result.info = <<path[routeIdx][1], path[routeIdx][2], call.retries>>
              /\ logicCalls[routeIdx] = call.retries

\* the steps of C4 once an edge has used up its attempts
C4_Step ==
    /\ (pc = "traverse" /\ routeIdx <= Len(path) /\ logicCalls[routeIdx] >= call.retries)
          => (pc' = "done" /\ result'.error = "Failed to traverse")
    /\ result.error = "Failed to traverse" => (pc' = "idle" /\ logicCalls' = <<>>)

\* C4. In traversePath the logic of an edge is invoked at most `retries` times; the
\* attempt counter counts the attempts made on the current edge only; no logic of
\* a later edge has run while an edge is being attempted; when `retries` attempts
\* of an edge have failed, the next step raises the error naming that edge and
\* the retry count, and nothing more is invoked.
C4_RetriesPerEdge == []C4_State /\ [][C4_Step]_vars

\* the second edge of a path failed `retries` times after the first had needed
\* all but one of its attempts
C4_Witness ==
    /\ Traversing
    /\ result.error = "Failed to traverse"
    /\ call.retries = 2
    /\ routeIdx = 2
    /\ logicCalls = <<2, 2>>

\* ------------------------------------------------------------------------
\* C5. For a registered target T other than the current state, findPathToState(T)
\* raises 'No route exists' exactly when no chain of declared transitions leads to
\* T from the current state or from the sentinel; ensureState(T) then rejects with
\* that error without running transition logic or the continuation.
C5_NoRouteIffUnreachable ==
    /\ (FoundPath /\ IsState(call.target) /\ call.target # lastSeen)
         => (result.error = "No route exists"
               <=> WalksTo({lastSeen, BAD_STATE}, call.target) = {})
    /\ (call.op = "ensureState" /\ RejectedInRouting /\ IsState(call.target))
         => /\ result.error = "No route exists"
            /\ WalksTo({lastSeen, BAD_STATE}, call.target) = {}
            /\ logicCalls = <<>>
            /\ contCalls = <<>>

\* ------------------------------------------------------------------------
\* C6. findPathToState(X) and ensureState(X) for a name X that is not registered
\* raise 'Unknown state' naming X, whatever the position, and run neither
\* transition logic nor the continuation.
C6_UnknownTargetNamed ==
    (call.op \in {"findPathToState", "ensureState"} /\ ~IsState(call.target))
    => /\ pc = "done"
       /\ result.error = "Unknown state"
       /\ result.info = <<call.target>>
       /\ logicCalls = <<>>
       /\ contCalls = <<>>

\* ------------------------------------------------------------------------
\* the results of C8 in every state
C8_AlreadyThere ==
    /\ (FoundPath /\ IsState(call.target) /\ lastSeen = call.target)
         => result = Ok(<<>>, call.target)
    /\ (call.op = "ensureState" /\ lastSeen = call.target
           /\ \A i \in DOMAIN logicCalls : logicCalls[i] = 0)
         => /\ path = <<>>
            /\ pc \in {"continuation", "done"}
            /\ result.error \in {"none", "pending"}
            /\ Len(contCalls) <= 1

\* the step of C8 that ends ensureState on an empty path
C8_Step ==
    (call.op = "ensureState" /\ pc = "continuation" /\ path = <<>>)
    => (pc' = "done" /\ result'.error = "none" /\ logicCalls' = <<>> /\ Len(contCalls') <= 1)

\* C8. When the current state is the target, findPathToState returns the empty
\* path, and ensureState runs no transition logic and ends in its very next
\* step, in which the continuation, when one was supplied, is invoked once (and
\* never more than once).
C8_EmptyPathWhenThere == []C8_AlreadyThere /\ [][C8_Step]_vars

\* ensureState found the page in a dead-end target and went straight to the continuation
C8_Witness ==
    /\ call.op = "ensureState"
    /\ pc = "done"
    /\ lastSeen = call.target
    /\ ~HasNeighbors(call.target)
    /\ <<BAD_STATE, call.target>> \in DOMAIN neighbors
    /\ path = <<>>
    /\ Len(contCalls) = 1

\* ------------------------------------------------------------------------
\* C9. When an attempt of ensureState leaves the page in a registered state other
\* than the declared end of the edge, attempts remain and a route leads from that
\* state to the target, the route that is followed from then on is the shortest
\* route from that state to the target.
C9_RecomputesAfterWrongState ==
    [][(/\ pc = "traverse"
        /\ call.op = "ensureState"
        /\ pc' = "traverse"
        /\ retryAttempts' = retryAttempts + 1
        /\ retryAttempts' < call.retries
        /\ IsState(lastSeen')
        /\ fsmFindPathToState(lastSeen', call.target).error = "none")
       => SubSeq(path', routeIdx', Len(path')) = fsmFindPathToState(lastSeen', call.target).path]_vars

\* ------------------------------------------------------------------------
\* C10. ensureEitherState over registered candidates, one of which is the current
\* state or is led to by declared transitions from the current state or the
\* sentinel, settles on a candidate and a route; the route is that candidate's
\* route and costs no more than the route of any candidate that has one; no logic
\* runs before that; the continuation runs only once the candidate is confirmed
\* and is handed its name.
C10_CheapestCandidate ==
    call.op = "ensureEitherState" =>
        /\ (RejectedInRouting
              /\ \A i \in DOMAIN call.stateList : IsState(call.stateList[i]))
             => \A i \in DOMAIN call.stateList : ~HasRoute(call.stateList[i])
        /\ result.error \in {"none", "pending"} =>
              /\ result.state \in Range(call.stateList)
              /\ path = <<>> \/ path[Len(path)][2] = result.state
              /\ contCalls # <<>> =>
                    /\ lastSeen = result.state
                    /\ contCalls[1].state = result.state

\* ------------------------------------------------------------------------
\* C11. Right after ensureEitherState has computed its routes: if a candidate is
\* not registered the call has failed with the 'Unknown state' error naming the
\* first such candidate, with no transition run; otherwise, if no candidate is the
\* current state or is led to from it or from the sentinel, the call has failed
\* with 'No route exists' and the continuation was not invoked; otherwise the
\* candidates without a route were skipped and the call goes on with a candidate
\* that has one.
C11_EitherSkipsNoRoute ==
    (/\ call.op = "ensureEitherState"
     /\ RejectedInRouting \/ (pc \in {"traverse", "continuation"}
                                /\ \A i \in DOMAIN logicCalls : logicCalls[i] = 0))
    => LET list == call.stateList
           unknown == {i \in DOMAIN list : ~IsState(list[i])}
           routed == {i \in DOMAIN list : IsState(list[i]) /\ HasRoute(list[i])}
       IN IF unknown # {}
          THEN /\ RejectedInRouting
               /\ result.error = "Unknown state"
               /\ result.info = <<list[CHOOSE i \in unknown : \A j \in unknown : i <= j]>>
               /\ logicCalls = <<>>
               /\ contCalls = <<>>
          ELSE IF routed = {}
          THEN /\ RejectedInRouting
               /\ result.error = "No route exists"
               /\ logicCalls = <<>>
               /\ contCalls = <<>>
          ELSE /\ ~RejectedInRouting
               /\ result.state \in {list[i] : i \in routed}

\* ------------------------------------------------------------------------
\* C12. During ensureState, ensureEitherState and traversePath every state
\* predicate, every transition logic and the continuation is handed the params
\* value that the caller passed.
C12_ParamsThreaded ==
    Traversing =>
        /\ paramsSeen.tests \subseteq {CallerParams}
        /\ paramsSeen.logic \subseteq {CallerParams}
        /\ \A i \in DOMAIN contCalls : contCalls[i].params = CallerParams

C14_CostMonotone ==
    [][(pc = "idle" /\ call'.op = "addStateTransition"
          /\ <<call'.start, call'.target>> \in DOMAIN neighbors)
       => LET e == <<call'.start, call'.target>>
          IN IF neighbors[e] <= call'.cost
             THEN /\ result'.error = "cheaper path"
                  /\ result'.info = <<neighbors[e], e[1], e[2]>>
                  /\ UNCHANGED <<states, neighbors, fragmentTransitions>>
             ELSE /\ result'.error = "none"
                  /\ neighbors' = [neighbors EXCEPT ![e] = call'.cost]
                  /\ neighbors'[e] < neighbors[e]]_vars

\* a transition declared again with the cost it already has was rejected
C14_Witness ==
    /\ pc = "done"
    /\ call.op = "addStateTransition"
    /\ result.error = "cheaper path"
    /\ <<call.start, call.target>> \in DOMAIN neighbors
    /\ neighbors[<<call.start, call.target>>] = call.cost

\* ------------------------------------------------------------------------
\* the stored transitions of C16
C16_Stored ==
    \A e \in DOMAIN neighbors :
        /\ IsState(e[2])
        /\ e[1] # BAD_STATE => (IsState(e[1]) /\ e[1] # e[2])

\* the failing declarations of C16
C16_Step ==
    (pc = "idle" /\ call'.op \in {"addState", "addStateTransition", "addDefaultStateTransition"}
        /\ result'.error # "none")
    => UNCHANGED <<states, neighbors, fragmentTransitions>>

\* C16. After any sequence of addState, addStateTransition and
\* addDefaultStateTransition calls every stored transition ends at a registered
\* state, every simple transition starts at a registered state other than its end,
\* and a call that raises an error leaves the state list and the transition tables
\* unchanged.
C16_TransitionsWellFormed == []C16_Stored /\ [][C16_Step]_vars

\* ------------------------------------------------------------------------
\* C17. addState raises an error and changes nothing when the name is the
\* sentinel or is already registered; otherwise it appends the name to the list
\* of states, which therefore never holds a name twice.
C17_AddState ==
    [][(pc = "idle" /\ call'.op = "addState")
       => IF call'.target = BAD_STATE \/ IsState(call'.target)
          THEN /\ result'.error = "already exists"
               /\ UNCHANGED <<states, neighbors, fragmentTransitions>>
          ELSE /\ result'.error = "none"
               /\ states' = Append(states, call'.target)
               /\ \A i, j \in DOMAIN states' : states'[i] = states'[j] => i = j]_vars

\* ------------------------------------------------------------------------
\* C15. addCompositeStateTransition for a start and end fragment that already
\* have a stored fragment transition, when both fragments are valid, raises the
\* 'cheaper path' error and leaves the stored transition unchanged if the new cost
\* is equal or higher, and replaces it only if the new cost is strictly lower.
C15_CompositeCostMonotone ==
    [][(/\ pc = "idle"
        /\ call'.op = "addCompositeStateTransition"
        /\ <<stateToString(AsMap(call'.fields)), stateToString(AsMap(call'.endFields))>>
              \in DOMAIN fragmentTransitions
        /\ result'.error \notin {"No composite state", "No generated state matches"})
       => LET key == <<stateToString(AsMap(call'.fields)), stateToString(AsMap(call'.endFields))>>
          IN IF fragmentTransitions[key] <= call'.cost
             THEN /\ result'.error = "cheaper path"
                  /\ UNCHANGED fragmentTransitions
             ELSE /\ result'.error = "none"
                  /\ fragmentTransitions' = [fragmentTransitions EXCEPT ![key] = call'.cost]]_vars

\* ------------------------------------------------------------------------
\* C18. allStates() raises the 'No composite state' error exactly when some
\* partial state of the expansion has no applicable value in some declared layer,
\* and the error names such a layer and the base state of such a partial state;
\* addCompositeState and addDefaultCompositeState never raise it.
C18_GapRaisedAtQuery ==
    /\ Queried =>
          /\ result.error = "No composite state" <=> Gaps # {}
          /\ result.error # "none" => result.info \in Gaps
    /\ (pc = "done" /\ call.op \in {"addCompositeState", "addDefaultCompositeState"})
          => result.error # "No composite state"

\* the query failed for a base state that has a value in the first layer and none
\* in the second
C18_Witness ==
    /\ Queried
    /\ result.error = "No composite state"
    /\ Len(layers) = 2
    /\ result.info[1] = layers[2].name
    /\ compositeFragments # <<>>

\* ------------------------------------------------------------------------
\* C19. When the expansion succeeds, allStates() holds no entry twice, every
\* entry has a registered base state followed by one value for every declared
\* layer, and the entries are exactly the combinations of a base state with, layer
\* by layer, a value that applies to it.
C19_ExactExpansion ==
    (Queried /\ result.error = "none") =>
        /\ \A i, j \in DOMAIN compositeStates : compositeStates[i] = compositeStates[j] => i = j
        /\ \A i \in DOMAIN compositeStates :
              /\ [k \in DOMAIN compositeStates[i] |-> compositeStates[i][k][1]]
                    = <<"base">> \o [k \in DOMAIN layers |-> layers[k].name]
              /\ IsState(Get(compositeStates[i], "base"))
        /\ Range(compositeStates) = PartialStates(Len(layers))

\* a successful expansion over two layers in which a base state has several entries
C19_Witness ==
    /\ Queried
    /\ result.error = "none"
    /\ Len(layers) = 2
    /\ \E i, j \in DOMAIN compositeStates :
          i # j /\ Get(compositeStates[i], "base") = Get(compositeStates[j], "base")

\* ------------------------------------------------------------------------
\* C20. In every entry of a successful expansion, the value of each layer after
\* the first comes from a declaration that assigns this value, lists the entry's
\* base state, and assigns to every earlier layer it mentions the value the
\* entry has there; so values that were never declared together for a base state
\* never occur together.
C20_GatedByEarlierLayers ==
    (Queried /\ result.error = "none") =>
        \A i \in DOMAIN compositeStates : \A k \in 2..Len(layers) :
            \E d \in Declarations :
                /\ Get(d.stateFields, layers[k].name) = Get(compositeStates[i], layers[k].name)
                /\ Get(compositeStates[i], "base") \in Range(d.baseStateList)
                /\ \A j \in 1..(k - 1) :
                      Get(d.stateFields, layers[j].name)
                          \in {Undefined, Get(compositeStates[i], layers[j].name)}

\* ------------------------------------------------------------------------
\* C21. addDefaultCompositeState for a fragment that is not declared yet succeeds
\* and registers the fragment over exactly the registered base states that no
\* existing value of any of the fragment's layers lists; a layer that has no
\* values yet covers no base state.
C21_DefaultCoversUncovered ==
    [][(/\ pc = "idle"
        /\ call'.op = "addDefaultCompositeState"
        /\ stateToString(AsMap(call'.fields)) \notin DOMAIN compositeFragments)
       => LET key == stateToString(AsMap(call'.fields))
              covered(st) ==
                  \E i \in DOMAIN call'.fields :
                      LET li == LayerIndex(layers, call'.fields[i][1])
                      IN /\ li # 0
                         /\ \E v \in DOMAIN layers[li].values :
                               st \in Range(layers[li].values[v].baseStateList)
          IN /\ result'.error = "none"
             /\ key \in DOMAIN compositeFragments'
             /\ Range(compositeFragments'[key].baseStateList)
                   = {st \in Range(states) : ~covered(st)}]_vars

\* ------------------------------------------------------------------------
\* C22. When the expansion succeeds, addCompositeStateTransition(start, end)
\* raises the 'start' error and stores nothing when start is a sub-map of no
\* expanded state; otherwise raises the 'end' error and stores nothing when start
\* overlaid with end is a sub-map of no expanded state; otherwise it stores the
\* transition under the canonical keys, unless the cost rule raises.
C22_StartAndEndValidated ==
    [][(pc = "idle" /\ call'.op = "addCompositeStateTransition" /\ Gaps = {})
       => LET key == <<stateToString(AsMap(call'.fields)), stateToString(AsMap(call'.endFields))>>
          IN IF Matches(call'.fields) = {}
             THEN /\ result'.error = "No generated state matches"
                  /\ result'.info = <<"start">>
                  /\ UNCHANGED fragmentTransitions
             ELSE IF Matches(Merge(call'.fields, call'.endFields)) = {}
             THEN /\ result'.error = "No generated state matches"
                  /\ result'.info = <<"end">>
                  /\ UNCHANGED fragmentTransitions
             ELSE \/ /\ result'.error = "none"
                     /\ key \in DOMAIN fragmentTransitions'
                     /\ fragmentTransitions'[key] = call'.cost
                  \/ /\ result'.error = "cheaper path"
                     /\ key \in DOMAIN fragmentTransitions
                     /\ UNCHANGED fragmentTransitions]_vars

\* a transition from a valid start fragment to an end that no expanded state
\* matches was rejected with the 'end' error
C22_Witness ==
    /\ pc = "done"
    /\ call.op = "addCompositeStateTransition"
    /\ result.error = "No generated state matches"
    /\ result.info = <<"end">>
    /\ Matches(call.fields) # {}

C24_NeighborsAreFullStates ==
    (Neighboured /\ result.error = "none") =>
        LET F == CHOOSE x \in Matches(call.fields) : TRUE
        IN /\ {AsMap(x) : x \in result.list}
                = {AsMap(Merge(F, stringToState(t[2]))) :
                      t \in {u \in DOMAIN fragmentTransitions :
                                isSubstate(stringToState(u[1]), F)}}
           /\ \A x \in result.list :
                 DOMAIN AsMap(x) = {"base"} \cup {layers[k].name : k \in DOMAIN layers}

\* ------------------------------------------------------------------------
\* C25. When no stored transition leads from a valid composite state to a state
\* that is not valid, and registering a new fragment would make one do so,
\* addCompositeState raises the 'creates side-effects' error and registers nothing.
C25_SideEffectsRejected ==
    [][(/\ pc = "idle"
        /\ call'.op = "addCompositeState"
        /\ stateToString(AsMap(call'.fields)) \notin DOMAIN compositeFragments
        /\ ~SideEffectsIn(layers)
        /\ SideEffectsIn(AddFragmentLayers(layers, call'.fields, 1, <<>>, call'.stateList)))
       => /\ result'.error = "creates side-effects"
          /\ UNCHANGED <<compositeFragments, layers>>]_vars

\* ------------------------------------------------------------------------
\* C26. allStates() and findPathToState leave the state list, the layers, the
\* transition tables and the cached current state as they were, and what each
\* returns or raises is what the same call returns or raises when it is made
\* again in the state the first call left behind: for findPathToState, the route
\* from the classification of the page it left under the cached state it left,
\* over the unchanged transition table.
C26_QueriesRepeat ==
    [][(pc = "idle" /\ call'.op \in {"allStates", "findPathToState"})
       => /\ UNCHANGED <<states, layers, neighbors, fragmentTransitions, currentState>>
          /\ call'.op = "allStates"
               => IF computeCompositeStates'.thrown
                  THEN /\ result'.error = "No composite state"
                       /\ result'.info = computeCompositeStates'.info
                  ELSE /\ result'.error = "none"
                       /\ compositeStates' = computeCompositeStates'.states
          /\ call'.op = "findPathToState"
               => result' = fsmFindPathToState(getCurrentState(page', currentState'), call'.target)]_vars

\* findPathToState found a route while the cached state differed from the state
\* that the page is classified as
C26_Witness ==
    /\ pc = "done"
    /\ call.op = "findPathToState"
    /\ result.error = "none"
    /\ result.path # <<>>
    /\ currentState # NULL
    /\ currentState # getCurrentState(page, currentState)
    /\ layers # <<>>

\* ------------------------------------------------------------------------
\* C27. getCurrentStateDetail either returns or raises the 'Unable to determine
\* state' error of a layer; with no layer declared it returns, and the base state
\* of its answer is the classification of the page.
C27_StateDetail ==
    (pc = "done" /\ call.op = "getCurrentStateDetail")
        => /\ result.error \in {"none", "Unable to determine state"}
           /\ layers = <<>> => (result.error = "none" /\ result.state = lastSeen)

\* ------------------------------------------------------------------------
C28_Step ==
    (pc = "traverse" /\ logicCalls' # logicCalls /\ result'.error # "driver"
        /\ lastSeen' # path[routeIdx][2])
    => /\ IF lastSeen' # currentState THEN currentState' = lastSeen'
          ELSE UNCHANGED currentState
       /\ pc' = "traverse"
       /\ UNCHANGED <<path, routeIdx>>

\* traversePath gave up on an edge
TraverseFailed == pc = "done" /\ Traversing /\ result.error = "Failed to traverse"

\* the original statement: whenever traversePath gives up, the cached current
\* state is the state observed last by the call, if it observed any, and is not
\* the end of the edge given up on
C28_AsStated ==
    /\ [](TraverseFailed => /\ lastSeen # NoObs => currentState = lastSeen
                            /\ currentState # result.info[2])
    /\ [][C28_Step]_vars

\* C28. After an attempt that is classified as another state than the edge's
\* declared end, the cached current state is the state that attempt observed and
\* the same edge is next; when traversePath gives up after at least one attempt
\* (retries >= 1), the cached current state is the state observed last and is not
\* the end of the edge given up on.
C28_WrongStateDocumented ==
    /\ []((TraverseFailed /\ call.retries >= 1)
            => (currentState = lastSeen /\ currentState # result.info[2]))
    /\ [][C28_Step]_vars

\* ensureState gave up on an edge after attempts that ended in another registered
\* state than the one the traversal started from
C28_Witness ==
    /\ TraverseFailed
    /\ call.op = "ensureState"
    /\ call.retries >= 1
    /\ IsState(currentState)
    /\ currentState # path[routeIdx][1]
    /\ currentState = lastSeen

\* ------------------------------------------------------------------------
C29_State ==
    (Traversing /\ pc # "idle")
        => \A i \in DOMAIN logicCalls : i > routeIdx => logicCalls[i] = 0

C29_Step ==
    pc = "traverse"
    => /\ logicCalls' # logicCalls
            => /\ DOMAIN logicCalls' = DOMAIN logicCalls
               /\ \A i \in DOMAIN logicCalls : i # routeIdx => logicCalls'[i] = logicCalls[i]
               /\ path' = path
       /\ routeIdx' # routeIdx
            => /\ routeIdx' = routeIdx + 1
               /\ logicCalls'[routeIdx] > logicCalls[routeIdx]
               /\ lastSeen' = path[routeIdx][2]

\* C29. During traversePath transition logic is invoked for the current edge
\* only: no edge after the current one has had its logic invoked, the current
\* edge advances by one and only with an attempt that was classified as the
\* edge's declared end, and it never moves back.
C29_PathOrder == []C29_State /\ [][C29_Step]_vars

\* a two-edge path was traversed with a retry of its first edge
C29_Witness ==
    /\ Traversing
    /\ pc = "done"
    /\ result.error = "none"
    /\ Len(path) = 2
    /\ logicCalls[1] >= 2
    /\ logicCalls[2] >= 1

RECURSIVE SumOf(_)
SumOf(counts) == IF counts = <<>> THEN 0 ELSE Head(counts) + SumOf(Tail(counts))

\* the route computation of the call got as far as the vertex table
Routed ==
    /\ pc # "idle"
    /\ call.op \in {"findPathToState", "ensureState"}
    /\ HasTest(lastSeen)
    /\ HasTest(call.target)
    /\ lastSeen # call.target

\* C31. Over every transition table with costs 0..MaxCost, cycles and unreachable
\* states included, the route computation makes at most (registered states + 1)
\* node selections and its path reconstruction makes at most that many steps;
\* a traversal invokes transition logic at most retries x |path| times.
C31_Terminates ==
    /\ Routed =>
          LET start == IF HasNeighbors(lastSeen) THEN lastSeen ELSE BAD_STATE
              vertices == Dijkstra(Append(states, BAD_STATE), InitialVertices(start))
              prev == vertices[call.target].prev
          IN /\ DijkstraSelections(Append(states, BAD_STATE), InitialVertices(start), 0)
                   <= Len(states) + 1
             /\ prev # NULL =>
                   ReconstructSteps(vertices, start, call.target, prev, 0) <= Len(states) + 1
    /\ (Traversing /\ pc # "idle") => SumOf(logicCalls) <= call.retries * Len(path)

\* a route was computed in a graph with a zero-cost cycle and a state that no
\* transition leads to, and every attempt the retries allow was made
C31_Witness ==
    /\ Routed
    /\ call.op = "ensureState"
    /\ pc = "done"
    /\ Len(path) = 1
    /\ call.retries = MaxRetries
    /\ SumOf(logicCalls) = call.retries * Len(path)
    /\ \E a \in Names, b \in Names :
          /\ <<a, b>> \in DOMAIN neighbors /\ <<b, a>> \in DOMAIN neighbors
          /\ neighbors[<<a, b>>] = 0 /\ neighbors[<<b, a>>] = 0
    /\ \E n \in Names : \A e \in DOMAIN neighbors : e[2] # n

\* ------------------------------------------------------------------------
\* the call was ended by an error thrown by the code the caller declared
Thrown == Traversing /\ result.error = "driver"

C32_State ==
    Thrown =>
        /\ pc = "done"
        /\ routeIdx <= Len(path)
        /\ result.info = <<path[routeIdx][1], path[routeIdx][2]>>
        /\ logicCalls[routeIdx] = retryAttempts + 1
        /\ \A i \in DOMAIN logicCalls : i > routeIdx => logicCalls[i] = 0
        /\ contCalls = <<>>

C32_Step ==
    /\ (pc = "traverse" /\ result'.error = "driver")
          => /\ pc' = "done"
             /\ logicCalls'[routeIdx] = logicCalls[routeIdx] + 1
             /\ UNCHANGED <<retryAttempts, routeIdx, currentState, contCalls, path, call>>
    /\ Thrown => (pc' = "idle" /\ UNCHANGED <<page, currentState>>)

C33_WhereAmICaches ==
    (pc = "done" /\ call.op = "whereAmI" /\ result.state # NULL)
        => currentState = result.state

\* ------------------------------------------------------------------------
\* C34. Every non-empty path that findPathToState returns consists of declared
\* transitions, starts at the state the page was classified as or at the
\* sentinel, chains each edge's end to the next edge's start, ends at the target,
\* has the sentinel nowhere but as the start of its first edge, and visits no
\* state twice.
C34_PathIsChain ==
    (FoundPath /\ result.error = "none" /\ result.path # <<>>) =>
        LET p == result.path
        IN /\ \A i \in DOMAIN p : p[i] \in DOMAIN neighbors
           /\ p[1][1] \in {lastSeen, BAD_STATE}
           /\ \A i \in 1..(Len(p) - 1) : p[i][2] = p[i + 1][1]
           /\ p[Len(p)][2] = call.target
           /\ \A i \in DOMAIN p : p[i][2] # BAD_STATE /\ (i > 1 => p[i][1] # BAD_STATE)
           /\ \A i \in DOMAIN p, j \in DOMAIN p : i # j => p[i][2] # p[j][2]
           /\ \A i \in DOMAIN p : p[i][2] # p[1][1]

\* a route of two edges that starts with a default transition, found from a state
\* that has transitions of its own
C34_Witness ==
    /\ FoundPath
    /\ result.error = "none"
    /\ Len(result.path) = 2
    /\ result.path[1][1] = BAD_STATE
    /\ HasNeighbors(lastSeen)

\* ------------------------------------------------------------------------
\* C35. With transition logic that does what it was declared to do, a call sets
\* the cached state to an edge's end, or invokes its continuation, while the page
\* is in another state only if the page was changed between two of its steps,
\* which the interleaved steps of another call do; when the calls run one after
\* the other and nothing else changes the page this never happens.
C35_CorruptOnlyWhenOverlapped == peer.corrupt => peer.disturbed

\* between the awaits of the second ensureState the first one moved the page:
\* the second call's continuation was invoked, and the cached state set to an
\* edge's end, with the page in another state
C35_Witness ==
    /\ peer.corrupt
    /\ peer.continued
    /\ peer.path # <<>>
    /\ currentState = peer.target
    /\ page # {peer.target}
    /\ call.op = "ensureState"

\* ------------------------------------------------------------------------
\* C36. Every state that getNeighbors returns is a valid composite state: it is
\* a sub-map of an expanded state.
C36_NeighborsAreValid ==
    (Neighboured /\ result.error = "none") =>
        \A x \in result.list : isValidState(x, compositeStates)

\* ------------------------------------------------------------------------
\* C37. Every simple transition s -> e in the neighbour table has a fragment
\* transition {base:s} -> {base:e} with the same cost.
C37_SimpleTransitionsMirrored ==
    \A e \in DOMAIN neighbors :
        e[1] # BAD_STATE =>
            LET key == <<stateToString([base |-> e[1]]), stateToString([base |-> e[2]])>>
            IN /\ key \in DOMAIN fragmentTransitions
               /\ fragmentTransitions[key] = neighbors[e]

\* ------------------------------------------------------------------------
\* C38. Whenever allStates() succeeds, for every declared fragment and every base
\* state of its list some expanded state has that base state and all of the
\* fragment's layer values.
C38_FragmentsRepresented ==
    (Queried /\ result.error = "none") =>
        \A k \in DOMAIN compositeFragments :
            \A b \in Range(compositeFragments[k].baseStateList) :
                \E i \in DOMAIN compositeStates :
                    /\ Get(compositeStates[i], "base") = b
                    /\ isSubstate(compositeFragments[k].stateFields, compositeStates[i])

\* ------------------------------------------------------------------------
\* some partial state of the expansion has two or more applicable values in a layer
Several ==
    \E k \in DOMAIN layers : \E x \in PartialStates(k - 1) :
        Cardinality({v \in DOMAIN layers[k].values : Applies(k, v, x)}) >= 2

\* the original statement: allStates() raises an error when a base state has no
\* applicable value in a layer and also when it has more than one, and declaring
\* fragments never raises it
C39_AsStated ==
    /\ Queried => (result.error # "none" <=> (Gaps # {} \/ Several))
    /\ (pc = "done" /\ call.op \in {"addCompositeState", "addDefaultCompositeState"})
          => result.error # "No composite state"

\* C39. allStates() raises the 'No composite state' error when a base state has
\* no applicable value in some declared layer, and only then: with two or more
\* applicable values it raises nothing and returns one expanded state for each of
\* them; declaring fragments that leave a gap or an overlap raises nothing.
C39_OnlyGapsRaise ==
    /\ Queried =>
          /\ result.error # "none" <=> Gaps # {}
          /\ (Several /\ Gaps = {}) =>
                /\ Range(compositeStates) = PartialStates(Len(layers))
                /\ Len(compositeStates) > Len(states)
    /\ (pc = "done" /\ call.op \in {"addCompositeState", "addDefaultCompositeState"}
           /\ (Gaps # {} \/ Several))
          => result.error \in {"none", "already exists", "TypeError"}

\* the expansion succeeded although a base state has two applicable values in a layer
C39_Witness ==
    /\ Queried
    /\ result.error = "none"
    /\ Several
    /\ Len(layers) = 2

\* ------------------------------------------------------------------------
\* the stored fragments with the key/value pairs of the fragment
SameFragment(fragment) ==
    {k \in DOMAIN compositeFragments :
        AsMap(compositeFragments[k].stateFields) = AsMap(fragment)}

\* the stored transitions with the key/value pairs of start and of end
SameTransition(start, end) ==
    {k \in DOMAIN fragmentTransitions :
        AsMap(stringToState(k[1])) = AsMap(start) /\ AsMap(stringToState(k[2])) = AsMap(end)}

C40_State ==
    /\ \A k \in DOMAIN compositeFragments :
          SameFragment(compositeFragments[k].stateFields) = {k}
    /\ \A k \in DOMAIN fragmentTransitions :
          SameTransition(stringToState(k[1]), stringToState(k[2])) = {k}

C40_Step ==
    /\ (pc = "idle" /\ call'.op = "addCompositeState" /\ SameFragment(call'.fields) # {})
          => /\ result'.error = "already exists"
             /\ UNCHANGED <<compositeFragments, layers, compositeStates, fragmentTransitions>>
    /\ (pc = "idle" /\ call'.op = "addCompositeStateTransition" /\ result'.error = "none")
          => /\ DOMAIN fragmentTransitions' =
                   DOMAIN fragmentTransitions
                       \cup {<<stateToString(AsMap(call'.fields)),
                               stateToString(AsMap(call'.endFields))>>}
             /\ SameTransition(call'.fields, call'.endFields) # {}
                   => DOMAIN fragmentTransitions' = DOMAIN fragmentTransitions
    /\ (pc = "idle" /\ call'.op = "addCompositeStateTransition"
           /\ \E k \in SameTransition(call'.fields, call'.endFields) :
                 fragmentTransitions[k] < call'.cost /\ Gaps = {})
          => result'.error = "cheaper path"

\* C40. A fragment with the key/value pairs of a declared fragment, its keys in
\* any order, is rejected as a duplicate by addCompositeState and nothing
\* changes; no two stored fragments and no two stored transitions have the same
\* key/value pairs; a composite transition declared with the pairs of a stored
\* one, in any key order, meets that stored transition.
C40_IdentityIgnoresKeyOrder == []C40_State /\ [][C40_Step]_vars

\* a fragment was rejected as a duplicate of one declared with its keys in the
\* other order, with a composite transition stored
C40_Witness ==
    /\ pc = "done"
    /\ call.op = "addCompositeState"
    /\ result.error = "already exists"
    /\ \E k \in SameFragment(call.fields) : compositeFragments[k].stateFields # call.fields
    /\ fragmentTransitions # <<>>

====
